---- MODULE Spec2Model ----
(***************************************************************************)
(* The Player core of homeslashmusic: the control plane (request handler   *)
(* and run loop, cooperative tasks of one executor), the audio thread that *)
(* pulls the output source, and the track list.                            *)
(*                                                                         *)
(* Time is counted in ticks of 5 s of produced audio (1000 read-back       *)
(* intervals of SOURCE_UPDATE_INTERVAL): the read-backs the model follows  *)
(* are the ones at the ticks, where a position is a whole number of ticks. *)
(***************************************************************************)
EXTENDS Integers, Sequences, FiniteSets, TLC

(* ------------------------------ bounds --------------------------------- *)
\* track identities 1..NumTracks
NumTracks == 2
\* longest track list that a further track is inserted into, in the
\* track-list specifications: their lists have up to MaxLen + 1 tracks
MaxLen == 2
\* longest track list of the player specification
PMaxLen == 2
\* duration of the shortest track, in ticks
TrackLen == 1
\* cap on the skip counter at the start of a request
MaxSkip == 0
\* cap on the number of undelivered source events
MaxChan == 1
\* width of usize in bits, scaled down so that its whole range is explored
UsizeBits == 3
\* cap on the number of undelivered events at the start of a request
MaxEvents == 1
\* cap on the number of messages waiting in the Message channel
MaxMessages == 1
\* the most event listeners that register
MaxSubs == 2
\* the canonical paths of the track files
NumPaths == 2
\* the get_or_load_track calls that may be in progress at once
NumLoads == 2
\* cap on the number of Tracks built
MaxArcs == 3
\* the most entries of a directory
MaxEntries == 2
\* the most paths of one get_or_load_tracks call
MaxRequest == 2
\* the volume 1.0, in the steps into which the model divides [0, 1]
VolumeSteps == 2

(* --------------------------- program constants -------------------------- *)
\* the number of values of a usize
USIZE_MOD == 2 ^ UsizeBits
\* the least value of an isize
ISIZE_MIN == 0 - 2 ^ (UsizeBits - 1)
\* go_to_previous_track: RESTART_THRESHOLD, 5 s, in ticks
RESTART_THRESHOLD == 1

Tracks == 1 .. NumTracks
NoTrack == 0
\* TrackDecoder::total_duration: track t lasts TrackLen + t - 1 ticks
total_duration(t) == TrackLen + t - 1

Procs == {"req", "run"}
\* the event listeners
Subs == 1 .. MaxSubs

(* ------------------------------ helpers -------------------------------- *)
Min(a, b) == IF a < b THEN a ELSE b
Max(a, b) == IF a > b THEN a ELSE b
WrapUsize(x) == x % USIZE_MOD
SaturatingSub(a, b) == IF a < b THEN 0 ELSE a - b
SaturatingAdd(a, b) == Min(a + b, USIZE_MOD - 1)

\* the identity sequence <<lo, ..., lo + n - 1>>
Range(lo, n) == [k \in 1 .. n |-> lo + k - 1]

IsPermutation(s) ==
    /\ \A k \in 1 .. Len(s) : s[k] \in 0 .. Len(s) - 1
    /\ \A j, k \in 1 .. Len(s) : j # k => s[j] # s[k]

Shuffles(s) ==
    { p \in [1 .. Len(s) -> 0 .. Len(s) - 1] :
        /\ \A j, k \in 1 .. Len(s) : j # k => p[j] # p[k]
        /\ \A k \in 1 .. Len(s) : \E j \in 1 .. Len(s) : p[j] = s[k] }

(* --------------------------- InsertPosition ----------------------------- *)
Absolute(i) == [kind |-> "Absolute", n |-> i]
Relative(d) == [kind |-> "Relative", n |-> d]
Start == [kind |-> "Start", n |-> 0]
End == [kind |-> "End", n |-> 0]
Replace == [kind |-> "Replace", n |-> 0]

\* InsertPosition::get_absolute: delta.abs() of the least isize overflows
get_absolute_overflows(p) == p.kind = "Relative" /\ p.n = ISIZE_MIN

\* a resolution of the position that takes End for Start
get_absolute_EndAsStart(p, current_position, track_list_len) ==
    LET pos ==
          CASE p.kind = "Absolute" -> p.n
            [] p.kind = "Relative" ->
                 IF p.n = 0 THEN current_position
                 ELSE IF p.n < 0
                      THEN SaturatingSub(current_position, (0 - p.n) - 1)
                      ELSE SaturatingAdd(current_position, p.n)
            [] p.kind \in {"Start", "End", "Replace"} -> 0
    IN  Max(0, Min(pos, track_list_len))

\* InsertPosition::get_absolute; for the least isize the value is the one the
\* wrapped delta.abs() - 1 gives, the greatest isize
get_absolute(p, current_position, track_list_len) ==
    LET pos ==
          CASE p.kind = "Absolute" -> p.n
            [] p.kind = "Relative" ->
                 IF p.n = 0 THEN current_position
                 ELSE IF p.n < 0
                      THEN SaturatingSub(current_position, (0 - p.n) - 1)
                      ELSE SaturatingAdd(current_position, p.n)
            [] p.kind = "Start" -> 0
            [] p.kind = "End" -> track_list_len
            [] p.kind = "Replace" -> 0
    IN  Max(0, Min(pos, track_list_len))

(* ------------------------------ TrackList ------------------------------- *)
\* Index for TrackListInner: the track at playing-order position `index`
TrackListInner_index(tl, sh, index) == tl[sh[index + 1] + 1]

\* a splice that leaves the existing shuffle indices as they were
TrackListInner_insert_tracks_NoShift(tl, sh, index, tracks) ==
    [ track_list |-> SubSeq(tl, 1, index) \o tracks \o SubSeq(tl, index + 1, Len(tl)),
      shuffled   |-> SubSeq(sh, 1, index) \o Range(index, Len(tracks))
                       \o SubSeq(sh, index + 1, Len(sh)) ]

\* TrackListInner::insert_tracks: the two vectors after splicing `tracks`
\* in at `index`
TrackListInner_insert_tracks(tl, sh, index, tracks) ==
    LET n == Len(tracks)
        bumped == [k \in 1 .. Len(sh) |-> IF sh[k] >= index THEN sh[k] + n ELSE sh[k]]
    IN  [ track_list |-> SubSeq(tl, 1, index) \o tracks \o SubSeq(tl, index + 1, Len(tl)),
          shuffled   |-> SubSeq(bumped, 1, index) \o Range(index, n)
                           \o SubSeq(bumped, index + 1, Len(bumped)) ]

\* an insertion that moves the index only for tracks put strictly before it
TrackList_insert_tracks_StrictlyBefore(tl, sh, current_index, p, tracks) ==
    LET insert_index == get_absolute(p, current_index, Len(tl))
        cleared == p.kind = "Replace"
        r == TrackListInner_insert_tracks(IF cleared THEN << >> ELSE tl,
                                          IF cleared THEN << >> ELSE sh,
                                          insert_index, tracks)
    IN  [ track_list |-> r.track_list, shuffled |-> r.shuffled,
          current_index |-> IF cleared THEN 0
                            ELSE IF Len(tl) > 0 /\ insert_index < current_index
                                 THEN current_index + Len(tracks)
                                 ELSE current_index,
          overflow |-> FALSE ]

\* TrackList::insert_tracks: the new vectors and the new current index;
\* `overflow` says that the addition to the index left the range of usize
TrackList_insert_tracks(tl, sh, current_index, p, tracks) ==
    LET len == Len(tl)
        insert_index == get_absolute(p, current_index, len)
        cleared == p.kind = "Replace"
        shifted == ~cleared /\ len > 0 /\ insert_index <= current_index
        new_current_index ==
            IF cleared THEN 0
            ELSE IF shifted THEN WrapUsize(current_index + Len(tracks))
                 ELSE current_index
        r == TrackListInner_insert_tracks(IF cleared THEN << >> ELSE tl,
                                          IF cleared THEN << >> ELSE sh,
                                          insert_index, tracks)
    IN  [ track_list |-> r.track_list, shuffled |-> r.shuffled,
          current_index |-> new_current_index,
          overflow |-> shifted /\ current_index + Len(tracks) >= USIZE_MOD ]

\* TrackList::shuffle_tracks: the orders a shuffle of `sh` can produce
shuffle_tracks(sh) == IF Len(sh) = 0 THEN { sh } ELSE Shuffles(sh)

\* TrackList::set_shuffle: the orders set_shuffle(shuffle) can leave
TrackList_set_shuffle(sh, shuffle) == IF shuffle THEN shuffle_tracks(sh) ELSE { sh }

\* TrackList::get_tracks_to_queue: the track at playing-order position
\* `index` and the one after it, NoTrack standing for "none"
get_tracks_to_queue(tl, sh, index) ==
    IF index >= Len(tl)
    THEN [some |-> FALSE, cur |-> NoTrack, next |-> NoTrack]
    ELSE [some |-> TRUE,
          cur  |-> TrackListInner_index(tl, sh, index),
          next |-> IF index + 1 < Len(tl) THEN TrackListInner_index(tl, sh, index + 1)
                   ELSE NoTrack]

(* ------------------------------- state ---------------------------------- *)
VARIABLES
    track_list,                \* TrackListInner.track_list
    shuffled_track_indicies,   \* TrackListInner.shuffled_track_indicies
    shuffle_enabled,           \* TrackList.shuffle_enabled
    current_track_index,       \* Player.current_track_index
    playback_state,            \* Controls.playback_state
    loop_mode,                 \* Controls.loop_mode
    to_skip,                   \* Controls.to_skip
    position,                  \* Controls.position
    seek_position,             \* Controls.seek_position
    seek_reply,                \* the oneshot channel of the pending seek
    volume,                    \* Controls.volume
    source_queue,              \* Controls.source_queue
    current,                   \* PlayerAudioOutput.current
    apc,                       \* where the audio thread is in its pull
    source_chan,               \* the SourceEvent channel (source_tx -> source_rx)
    event_chan,                \* the Event channel (event_tx -> player_event_rx)
    listeners,                 \* AudioServer.event_broadcast_tx: how many listeners
    delivered,                 \* the last event broadcast, and the playback state then
    locked,                    \* the mutexes of Controls a control-plane task holds
    broadcast_tx,              \* AudioServer.event_broadcast_tx: the listeners, in order
    closed,                    \* the listeners whose receiver has been dropped
    received,                  \* per listener, the last event sent to it
    message_chan,              \* the Message channel (message_tx -> message_rx)
    response,                  \* the last reply a StreamHandler wrote to its client
    loaded_tracks,             \* TrackCache.loaded_tracks: path -> Weak<Track>
    arcs,                      \* the Tracks built so far: path and strong count
    loader,                    \* the get_or_load_track calls: position and locals
    fs,                        \* the file system: files, their tags, directories
    paths,                     \* the paths given to get_or_load_tracks
    loaded,                    \* what get_or_load_tracks returned: (tracks, errors)
    client,                    \* the TrackList of a client (core/client)
    applied,                   \* the last update given to it, and what it returned
    debug_assertions,          \* the client is a build with debug assertions
    ctl,                       \* the two control-plane tasks: position and locals
    panicked                   \* a control-plane task panicked

vars == << track_list, shuffled_track_indicies, shuffle_enabled, current_track_index,
           playback_state, loop_mode, to_skip, position, seek_position, seek_reply,
           volume, source_queue, current, apc, source_chan, event_chan, listeners,
           delivered, locked, broadcast_tx, closed, received, message_chan, response,
           loaded_tracks, arcs, loader, fs, paths, loaded, client, applied,
           debug_assertions, ctl, panicked >>

listVars == << track_list, shuffled_track_indicies, shuffle_enabled >>
audioVars == << current, apc >>
eventVars == << event_chan, listeners, delivered >>
busVars == << broadcast_tx, closed, received >>
ipcVars == << message_chan, response >>
cacheVars == << loaded_tracks, arcs, loader >>
loadVars == << fs, paths, loaded >>
clientVars == << client, applied, debug_assertions >>
libVars == << cacheVars, loadVars, clientVars >>

(* SourceQueueState *)
SQNone == [st |-> "None", track |-> NoTrack]
SQPlaying == [st |-> "Playing", track |-> NoTrack]
SQQueued(t) == [st |-> "Queued", track |-> t]

\* SourceQueueState::is_queued
is_queued(q) == q.st = "Queued"
\* SourceQueueState::is_playing
is_playing(q) == q.st # "None"
\* SourceQueueState::invalidate
invalidate(q) == IF q.st = "Queued" THEN SQPlaying ELSE q

(* f32: a number of volume steps, or NaN *)
F32(x) == [nan |-> FALSE, v |-> x]
NaN == [nan |-> TRUE, v |-> 0]
\* f32::clamp: NaN stays NaN
f32_clamp(x, lo, hi) ==
    IF x.nan THEN x
    ELSE IF x.v < lo THEN F32(lo) ELSE IF x.v > hi THEN F32(hi) ELSE x
\* != of two f32: NaN differs from every value, itself included
f32_ne(a, b) == a.nan \/ b.nan \/ a.v # b.v

(* the child of the output: the filler (Empty or silence) or a controlled
   source.  `pos` is where the decoder stands in the stream, `tracked` what
   TrackPosition::get_pos reports, `factor` the factor of Amplify *)
NoSource == [track |-> NoTrack, pos |-> 0, tracked |-> 0, paused |-> FALSE,
             factor |-> F32(VolumeSteps)]
NewSource(t) == [track |-> t, pos |-> 0, tracked |-> 0, paused |-> FALSE,
                 factor |-> F32(VolumeSteps)]

(* Event *)
NoEvent == [kind |-> "None", s |-> "-", n |-> 0, nan |-> FALSE]
PlaybackStateChanged(st) == [NoEvent EXCEPT !.kind = "PlaybackStateChanged", !.s = st]
LoopModeChanged(m) == [NoEvent EXCEPT !.kind = "LoopModeChanged", !.s = m]
ShuffleChanged(b) == [NoEvent EXCEPT !.kind = "ShuffleChanged", !.n = IF b THEN 1 ELSE 0]
VolumeChanged(x) == [NoEvent EXCEPT !.kind = "VolumeChanged", !.n = x.v, !.nan = x.nan]
Seeked(d) == [NoEvent EXCEPT !.kind = "Seeked", !.n = d]

(* SeekPosition *)
NoSeek == [kind |-> "None", d |-> 0]
SeekTo(d) == [kind |-> "To", d |-> d]
SeekForward(d) == [kind |-> "Forward", d |-> d]
SeekBackward(d) == [kind |-> "Backward", d |-> d]

(* locals of a control-plane task.  Four of them only record what an
   operation did, for the properties below: `pre` the playback state a request
   started in, `wrapped` that it went through stop_or_wrap_track, `armed` the
   track it put into the slot as the current one, `at` the insertion index;
   `arg` and `tracks` are the position and the tracks of an insertion, the
   volume of a set_volume or the index a clear_tracks started with, `emitted`
   counts the events the operation emitted, `target` is the track of the
   source that was the child of the output when a seek was written.
   `parked` says that the task reached a Mutex::lock().await while the audio
   thread held the mutex and has not been polled since; `use_queued` is the
   argument of queue_current_track *)
NoArg == [kind |-> "-", n |-> 0]
IdleCtl == [pc |-> "idle", op |-> "-", ret |-> "-", sret |-> "-",
            cur |-> NoTrack, next |-> NoTrack, force |-> FALSE,
            seek |-> NoSeek, res |-> "-", pre |-> "-", wrapped |-> FALSE,
            armed |-> NoTrack, at |-> 0, arg |-> NoArg, tracks |-> << >>,
            emitted |-> 0, target |-> NoTrack, parked |-> FALSE,
            use_queued |-> FALSE]

(* the reply of a StreamHandler to a SetVolume request: the volume asked
   for, and what the server held at the instant the reply was written, the
   stored volume and the number of messages not yet taken by handle_messages *)
NoResponse == [kind |-> "None", v |-> F32(0), volume |-> F32(0), queued |-> 0]

(* TrackCache: the canonical paths of the files, the get_or_load_track calls
   that may be in progress at once, and the Tracks (Arc<Track>), named by the
   order in which they were built; a Weak that was never set is NoArc *)
Paths == 1 .. NumPaths
Loads == 1 .. NumLoads
NoArc == 0
IdleLoad == [pc |-> "idle", path |-> 0, track |-> NoArc]

(* Option<usize> and Option<String>; a String is a sequence of characters *)
NoneNum == [some |-> FALSE, v |-> 0]
SomeNum(n) == [some |-> TRUE, v |-> n]
NoneStr == [some |-> FALSE, v |-> << >>]
SomeStr(str) == [some |-> TRUE, v |-> str]

(* TrackMetadata: the fields sort_tracks reads *)
NoMeta == [album |-> NoneStr, track_number |-> NoneNum, title |-> NoneStr]

(* the file system.  A path is a number: 1 .. NumPaths are files, Dir and
   Sub directories; IoErr stands in a listing for an entry whose read failed *)
IoErr == 0
Dir == NumPaths + 1
Sub == NumPaths + 2
Dirs == {Dir, Sub}
NoDir == [state |-> "Missing", entries |-> << >>]
NoFs == [status |-> [path \in Paths |-> "Missing"], meta |-> [path \in Paths |-> NoMeta],
         dir |-> [d \in Dirs |-> NoDir]]

(* a call of get_or_load_tracks and its reply: the Tracks, each with its
   path, its tags and the Arc that holds it, and the errors, each a (path,
   LoadTrackError) pair.  `by` names the version of the cache that was
   called, `pc` the await the call is at, `path` the path it looks at, `todo`
   the paths of the request still to come, and `stack` the directories it is
   reading, the innermost last, each with the entries still to come and the
   Tracks found in it so far *)
NoLoaded == [by |-> "None", pc |-> "idle", path |-> 0, todo |-> << >>, stack |-> << >>,
             tracks |-> << >>, errors |-> << >>]
LoadedTrack(path, arc) == [path |-> path, meta |-> fs.meta[path], arc |-> arc]
LoadError(path, error) == << path, error >>

(* the TrackList of a client, TrackList::new; `applied` holds the kind of
   the last update or sync, its removed_indicies, what it returned, the vectors
   before it, and whether an update has failed since the vectors were last
   given in full *)
NewTrackList == [track_list |-> << >>, shuffle_indicies |-> << >>, needs_sync |-> FALSE]
NoUpdate == [kind |-> "None", res |-> "-", removed |-> << >>,
             before |-> [track_list |-> << >>, shuffle_indicies |-> << >>],
             out_of_sync |-> FALSE]

InitClient(debug) ==
    /\ client = NewTrackList
    /\ applied = NoUpdate
    /\ debug_assertions = debug

\* the server after construction, with n listeners registered
InitServer(n) ==
    /\ track_list = << >>
    /\ shuffled_track_indicies = << >>
    /\ shuffle_enabled = FALSE
    /\ current_track_index = 0
    /\ playback_state = "Stopped"
    /\ loop_mode = "None"
    /\ to_skip = 0
    /\ position = 0
    /\ seek_position = NoSeek
    /\ seek_reply = "None"
    /\ volume = F32(VolumeSteps)
    /\ source_queue = SQNone
    /\ current = NoSource
    /\ apc = "load"
    /\ source_chan = << >>
    /\ event_chan = << >>
    /\ listeners = n
    /\ delivered = [ev |-> NoEvent, state |-> "Stopped"]
    /\ locked = { }
    /\ broadcast_tx = Range(1, n)
    /\ closed = { }
    /\ received = [id \in Subs |-> NoEvent]
    /\ message_chan = << >>
    /\ response = NoResponse
    /\ loaded_tracks = [path \in Paths |-> NoArc]
    /\ arcs = << >>
    /\ loader = [c \in Loads |-> IdleLoad]
    /\ ctl = [p \in Procs |-> IdleCtl]
    /\ panicked = FALSE

\* the state after construction, with n listeners registered and no
\* request to load tracks made
InitWith(n) ==
    /\ InitServer(n)
    /\ fs = NoFs
    /\ paths = << >>
    /\ loaded = NoLoaded
    /\ InitClient(FALSE)

\* a server built without plugins: nobody listens to the events
Init == InitWith(0)

\* a server whose plugin registered its listener before AudioServer::run
InitListening == InitWith(1)

\* a server to which listeners are still to be registered
InitBus == InitWith(0)

(* ------------------------- control-plane tasks -------------------------- *)
\* the await points at which a task yields the executor whatever the state
\* of the player: receiving a message or an event, building a decoder on the
\* blocking pool, the timer of queue_track and the reply of a seek
SuspendPcs == {"idle", "load_cur", "load_next", "wait_queue", "seek_wait"}

\* the mutex of Controls the audio thread holds, from a lock_blocking to the
\* drop of the guard it returned
HeldMutex ==
    CASE apc \in {"consume", "clear_slot"} -> "source_queue"
      [] apc = "set_factor" -> "volume"
      [] apc = "take_seek" -> "seek_position"
      [] apc = "store_position" -> "position"
      [] OTHER -> "none"
AudioHolds(mutex) == HeldMutex = mutex

\* the Mutex::lock().await points of the control plane and the mutex each
\* takes: a task that finds the mutex held by the audio thread yields there
LockOf(pc) ==
    CASE pc \in {"lock_clear", "lock_queue", "lock_install", "lock_seek", "wait_queue"}
           -> "source_queue"
      [] pc \in {"lock_position", "stop3"} -> "position"
      [] pc = "seek_set" -> "seek_position"
      [] pc = "lock_volume" -> "volume"

\* task q has yielded the executor
Suspended(q) == ctl[q].pc \in SuspendPcs \/ ctl[q].parked

\* task p holds the executor: the other task has yielded
CanRun(p) == ~panicked /\ \A q \in Procs \ {p} : Suspended(q)

\* Player::is_stopped
is_stopped == playback_state = "Stopped"

(* The part of the state that the straight-line code between two await
   points of an operation reads and writes, as a record: the operators
   below are the pieces of that code, composed as the code composes them. *)
CS(loc) == [tl |-> track_list, sh |-> shuffled_track_indicies,
            idx |-> current_track_index, skip |-> to_skip, sq |-> source_queue,
            loc |-> [loc EXCEPT !.parked = FALSE], panic |-> FALSE]

\* Mutex::lock().await returns Pending: the task yields at lock point `pc`
lock_await(cs, pc) == [cs EXCEPT !.loc.pc = pc, !.loc.parked = TRUE]

\* PlayerError::is_recoverable
is_recoverable(error) == error \in {"LoadTrack", "SeekFailed"}

\* an operation returns: a request goes on to deliver its response, the run
\* loop logs a recoverable error and waits for the next event; any other
\* error it returns, which ends AudioServer::run and with it every task
Return(cs, res) ==
    [cs EXCEPT !.loc = IF @.op = "advance"
                       THEN IF res = "Ok" \/ is_recoverable(res) THEN IdleCtl
                            ELSE [IdleCtl EXCEPT !.pc = "returned", !.op = "advance",
                                                 !.res = res]
                       ELSE [IdleCtl EXCEPT !.pc = "done", !.op = cs.loc.op, !.res = res,
                                            !.pre = cs.loc.pre, !.wrapped = cs.loc.wrapped,
                                            !.armed = cs.loc.armed, !.at = cs.loc.at,
                                            !.arg = cs.loc.arg, !.tracks = cs.loc.tracks,
                                            !.emitted = cs.loc.emitted]]

\* what follows a queue_current_track that returned Ok(true)
AfterQueue(cs) ==
    IF cs.loc.ret = "play" THEN [cs EXCEPT !.loc.pc = "set_playing"] ELSE Return(cs, "Ok")

\* Player::queue_current_track under the lock of source_queue, up to the
\* first decoder it builds
queue_current_track_locked(cs) ==
    LET use_queued == cs.loc.use_queued
        load_necessary == cs.sq.st = "None" \/ ~use_queued
        skip == IF cs.sq.st = "Queued" \/ (cs.sq.st = "Playing" /\ ~use_queued)
                THEN cs.skip + 1 ELSE cs.skip
        sq == IF cs.sq.st = "Queued" /\ ~use_queued THEN invalidate(cs.sq) ELSE cs.sq
        cs1 == [cs EXCEPT !.skip = skip, !.sq = sq]
    IN  IF load_necessary THEN [cs1 EXCEPT !.loc.pc = "load_cur"]
        ELSE IF cs.loc.next # NoTrack THEN [cs1 EXCEPT !.loc.pc = "load_next"]
        ELSE AfterQueue(cs1)

\* Player::queue_current_track up to its next await point: the tracks to
\* queue are looked up, then source_queue is locked
queue_current_track(cs, use_queued) ==
    LET q == get_tracks_to_queue(cs.tl, cs.sh, cs.idx)
        cs1 == [cs EXCEPT !.loc.cur = q.cur, !.loc.next = q.next, !.loc.force = FALSE,
                          !.loc.use_queued = use_queued]
    IN  IF ~q.some THEN [found |-> FALSE, cs |-> cs]
        ELSE [found |-> TRUE,
              cs |-> IF AudioHolds("source_queue") THEN lock_await(cs1, "lock_queue")
                     ELSE queue_current_track_locked(cs1)]

\* Player::clear_source_queue under the lock of source_queue; Player::stop
\* goes on to set the playback state
clear_source_queue_locked(cs) ==
    LET cs1 == IF is_playing(cs.sq)
               THEN [cs EXCEPT !.sq = invalidate(cs.sq), !.skip = @ + 1]
               ELSE cs
    IN  [cs1 EXCEPT !.loc.pc = "stop2"]

\* Player::clear_source_queue, the first step of Player::stop
clear_source_queue(cs, sret) ==
    LET cs1 == [cs EXCEPT !.loc.sret = sret]
    IN  IF AudioHolds("source_queue") THEN lock_await(cs1, "lock_clear")
        ELSE clear_source_queue_locked(cs1)

\* Player::stop_or_wrap_track up to its next step: the outcomes
stop_or_wrap_track(cs0, reverse) ==
    LET cs == [cs0 EXCEPT !.loc.wrapped = TRUE]
        should_loop == loop_mode # "None"
        rest(c) == IF ~should_loop THEN clear_source_queue(c, "done")
                   ELSE IF ~is_stopped
                        THEN LET r == queue_current_track(c, FALSE)
                             IN  IF r.found THEN r.cs ELSE Return(c, "Ok")
                        ELSE Return(c, "Ok")
    IN  IF should_loop /\ reverse
        THEN IF Len(cs.tl) = 0
             THEN \* len() - 1 on an empty list: a panic where overflow is
                  \* checked, a wrap-around where it is not
                  { [cs EXCEPT !.panic = TRUE],
                    rest([cs EXCEPT !.idx = WrapUsize(0 - 1)]) }
             ELSE { rest([cs EXCEPT !.idx = Len(cs.tl) - 1]) }
        ELSE { rest([cs EXCEPT !.idx = 0]) }

\* Player::go_to_next_track up to its next step: the outcomes
go_to_next_track(cs0) ==
    LET cs == [cs0 EXCEPT !.idx = WrapUsize(@ + 1)]
        body(new_index) ==
            IF is_stopped
            THEN IF new_index >= Len(cs.tl) THEN stop_or_wrap_track(cs, FALSE)
                 ELSE { Return(cs, "Ok") }
            ELSE LET r == queue_current_track([cs EXCEPT !.loc.ret = "next"], TRUE)
                 IN  IF r.found THEN { r.cs } ELSE stop_or_wrap_track(cs, FALSE)
    IN  IF cs0.idx + 1 < USIZE_MOD THEN body(cs0.idx + 1)
        ELSE \* 1 + usize::MAX: a panic or a wrap-around, after the fetch_add
             { [cs EXCEPT !.panic = TRUE] } \cup body(0)

\* Player::play up to its next step
play(cs) ==
    IF is_stopped
    THEN LET r == queue_current_track([cs EXCEPT !.loc.ret = "play"], TRUE)
         IN  IF r.found THEN r.cs ELSE Return(cs, "Ok")
    ELSE [cs EXCEPT !.loc.pc = "set_playing"]

\* Player::seek under the lock of source_queue: with nothing in the slot
\* it returns, else it goes on to lock seek_position
seek_locked(cs) ==
    IF cs.sq.st = "None" THEN Return(cs, "Ok") ELSE [cs EXCEPT !.loc.pc = "seek_set"]

\* Player::seek up to the write of the pending seek
seek(cs0, sp) ==
    LET cs == [cs0 EXCEPT !.loc.seek = sp]
    IN  IF AudioHolds("source_queue") THEN lock_await(cs, "lock_seek") ELSE seek_locked(cs)

\* a previous_track that never restarts the current track
go_to_previous_track_NoRestart(cs, soft) ==
    IF cs.idx = 0 THEN stop_or_wrap_track(cs, TRUE)
    ELSE LET c == [cs EXCEPT !.idx = @ - 1]
         IN  IF is_stopped THEN { Return(c, "Ok") }
             ELSE LET r == queue_current_track(c, FALSE)
                  IN  { IF r.found THEN r.cs ELSE Return(c, "Ok") }

\* Player::go_to_previous_track once the position could be read
go_to_previous_track_locked(cs, soft) ==
    IF soft /\ position > RESTART_THRESHOLD
    THEN { seek([cs EXCEPT !.loc.op = "restart"], SeekTo(0)) }
    ELSE IF cs.idx = 0 THEN stop_or_wrap_track(cs, TRUE)
    ELSE LET c == [cs EXCEPT !.idx = @ - 1]
         IN  IF is_stopped THEN { Return(c, "Ok") }
             ELSE LET r == queue_current_track(c, FALSE)
                  IN  { IF r.found THEN r.cs ELSE Return(c, "Ok") }

\* Player::go_to_previous_track up to its next step: the outcomes; a soft
\* one first locks the position to read it
go_to_previous_track(cs, soft) ==
    IF soft /\ AudioHolds("position") THEN { lock_await(cs, "lock_position") }
    ELSE go_to_previous_track_locked(cs, soft)

\* Player::insert_tracks up to its next step: the outcomes
insert_tracks(cs, p, tracks) ==
    LET r == TrackList_insert_tracks(cs.tl, cs.sh, cs.idx, p, tracks)
        c == [cs EXCEPT !.tl = r.track_list, !.sh = r.shuffled, !.idx = r.current_index,
                        !.loc.at = get_absolute(p, cs.idx, Len(cs.tl)),
                        !.loc.arg = p, !.loc.tracks = tracks]
        done == IF p.kind = "Replace" /\ ~is_stopped
                THEN LET q == queue_current_track(c, FALSE)
                     IN  IF q.found THEN q.cs ELSE Return(c, "Ok")
                ELSE Return(c, "Ok")
    IN  \* an index past usize::MAX or the absolute value of the least isize:
        \* a panic where overflow is checked, a wrap-around where it is not
        IF r.overflow \/ get_absolute_overflows(p)
        THEN { [cs EXCEPT !.panic = TRUE], done } ELSE { done }

\* Player::set_shuffle up to its next step: the outcomes
set_shuffle(cs, shuffle) ==
    IF shuffle = shuffle_enabled THEN { Return(cs, "Ok") }
    ELSE { LET c == [cs EXCEPT !.sh = sh]
               q == get_tracks_to_queue(c.tl, c.sh, c.idx)
           IN  IF ~is_stopped /\ q.some /\ q.next # NoTrack
               THEN [c EXCEPT !.loc.pc = "load_next", !.loc.next = q.next, !.loc.force = TRUE]
               ELSE Return(c, "Ok")
           : sh \in TrackList_set_shuffle(cs.sh, shuffle) }

\* the state after a piece of straight-line code of task p
Apply(p, out) ==
    /\ track_list' = out.tl
    /\ shuffled_track_indicies' = out.sh
    /\ current_track_index' = out.idx
    /\ to_skip' = out.skip
    /\ source_queue' = out.sq
    /\ panicked' = out.panic
    /\ ctl' = IF out.panic THEN ctl ELSE [ctl EXCEPT ![p] = out.loc]

\* Player::emit: try_send puts the event into the Event channel, which is
\* unbounded, whether or not a listener is registered
emit(chan, ev) == Append(chan, ev)

\* Player::set_playback_state: the event it emits, if any
set_playback_state(chan, new_state) ==
    IF playback_state # new_state THEN emit(chan, PlaybackStateChanged(new_state)) ELSE chan

\* the locals of task p after it emitted an event if `changed`
Emitted(p, changed) == [ctl[p] EXCEPT !.emitted = IF changed THEN @ + 1 ELSE @]

\* the request handler is ready to take a request
ReqIdle ==
    /\ CanRun("req") /\ ctl["req"].pc = "idle"
    /\ to_skip <= MaxSkip /\ Len(event_chan) <= MaxEvents

\* the locals of a request that starts now
NewReq(op) == [IdleCtl EXCEPT !.op = op, !.pre = playback_state]

quietVars == << volume, listeners, delivered, locked, busVars, ipcVars, libVars >>

othersUnchanged == UNCHANGED << audioVars, loop_mode, position, seek_position,
                                seek_reply, source_chan, quietVars >>

(* requests: each Player operation from its entry to its first await point
   or its first write that the audio thread can see *)
\* Player::play
ReqPlay ==
    /\ ReqIdle
    /\ Apply("req", play(CS(NewReq("play"))))
    /\ UNCHANGED << shuffle_enabled, playback_state, event_chan >> /\ othersUnchanged

\* a pause that also takes a Stopped player to Paused
Player_pause_UnStops(prev_state) == "Paused"

\* Player::pause: the playback state it leaves
Player_pause(prev_state) == IF prev_state = "Playing" THEN "Paused" ELSE prev_state

\* Player::pause
ReqPause ==
    /\ ReqIdle
    /\ playback_state' = Player_pause(playback_state)
    /\ event_chan' = set_playback_state(event_chan, Player_pause(playback_state))
    /\ Apply("req", Return(CS([NewReq("pause") EXCEPT
                                 !.emitted = IF playback_state' # playback_state
                                             THEN 1 ELSE 0]), "Ok"))
    /\ UNCHANGED shuffle_enabled /\ othersUnchanged

\* Player::toggle_playback
ReqToggle ==
    /\ ReqIdle
    /\ IF playback_state = "Playing"
       THEN /\ playback_state' = "Paused"
            /\ event_chan' = set_playback_state(event_chan, "Paused")
            /\ Apply("req", Return(CS([NewReq("toggle") EXCEPT !.emitted = 1]), "Ok"))
       ELSE /\ playback_state' = playback_state
            /\ event_chan' = event_chan
            /\ Apply("req", play(CS(NewReq("toggle"))))
    /\ UNCHANGED shuffle_enabled /\ othersUnchanged

\* Player::stop
ReqStop ==
    /\ ReqIdle
    /\ Apply("req", clear_source_queue(CS(NewReq("stop")), "done"))
    /\ UNCHANGED << shuffle_enabled, playback_state, event_chan >> /\ othersUnchanged

\* Player::clear_tracks
ReqClear ==
    /\ ReqIdle
    /\ Apply("req", clear_source_queue(
                       CS([NewReq("clear") EXCEPT
                             !.arg = [kind |-> "Index", n |-> current_track_index]]),
                       "clear"))
    /\ UNCHANGED << shuffle_enabled, playback_state, event_chan >> /\ othersUnchanged

\* Player::go_to_next_track, as a request
ReqNext ==
    /\ ReqIdle
    /\ \E out \in go_to_next_track(CS(NewReq("next"))) : Apply("req", out)
    /\ UNCHANGED << shuffle_enabled, playback_state, event_chan >> /\ othersUnchanged

\* Player::go_to_previous_track
ReqPrev(soft) ==
    /\ ReqIdle
    /\ \E out \in go_to_previous_track(
                       CS([NewReq("prev") EXCEPT
                             !.arg = [kind |-> IF soft THEN "Soft" ELSE "Hard", n |-> 0]]),
                       soft) :
           Apply("req", out)
    /\ UNCHANGED << shuffle_enabled, playback_state, event_chan >> /\ othersUnchanged

\* Player::set_loop_mode
ReqSetLoopMode(m) ==
    /\ ReqIdle
    /\ loop_mode' = m
    /\ event_chan' = IF m # loop_mode THEN emit(event_chan, LoopModeChanged(m))
                     ELSE event_chan
    /\ Apply("req", Return(CS([NewReq("set_loop_mode") EXCEPT
                                 !.emitted = IF m # loop_mode THEN 1 ELSE 0]), "Ok"))
    /\ UNCHANGED << shuffle_enabled, playback_state, audioVars, position, seek_position,
                    seek_reply, source_chan, quietVars >>

\* Player::set_shuffle
ReqSetShuffle(shuffle) ==
    /\ ReqIdle
    /\ \E out \in set_shuffle(CS([NewReq("set_shuffle") EXCEPT
                                     !.emitted = IF shuffle # shuffle_enabled THEN 1 ELSE 0]),
                                 shuffle) : Apply("req", out)
    /\ shuffle_enabled' = shuffle
    /\ event_chan' = IF shuffle # shuffle_enabled
                     THEN emit(event_chan, ShuffleChanged(shuffle)) ELSE event_chan
    /\ UNCHANGED playback_state /\ othersUnchanged

\* Player::insert_tracks
ReqInsert(p, tracks, maxLen) ==
    /\ ReqIdle
    /\ (IF p.kind = "Replace" THEN 0 ELSE Len(track_list)) + Len(tracks) <= maxLen
    /\ \E out \in insert_tracks(CS(NewReq(IF p.kind = "Replace" THEN "replace"
                                                                     ELSE "insert")),
                                   p, tracks) : Apply("req", out)
    /\ UNCHANGED << shuffle_enabled, playback_state, event_chan >> /\ othersUnchanged

\* Player::seek, as a request
ReqSeek(sp) ==
    /\ ReqIdle
    /\ Apply("req", seek(CS(NewReq("seek")), sp))
    /\ UNCHANGED << shuffle_enabled, playback_state, event_chan >> /\ othersUnchanged

\* Player::set_volume: the volume it stores
Player_set_volume(v) == f32_clamp(v, 0, VolumeSteps)

\* Player::set_volume up to the lock of the volume: the mutex is taken, or
\* the task yields while the audio thread holds it
set_volume_lock(v) ==
    /\ ReqIdle
    /\ LET cs == CS([NewReq("set_volume") EXCEPT
                       !.arg = [kind |-> IF v.nan THEN "NaN" ELSE "Volume", n |-> v.v]])
       IN  IF AudioHolds("volume")
           THEN /\ locked' = locked
                /\ Apply("req", lock_await(cs, "lock_volume"))
           ELSE /\ locked' = locked \cup {"volume"}
                /\ Apply("req", [cs EXCEPT !.loc.pc = "volume_locked"])
    /\ UNCHANGED << shuffle_enabled, playback_state, audioVars, loop_mode, position,
                    seek_position, seek_reply, source_chan, eventVars, busVars, libVars, volume >>

\* Player::set_volume: the audio thread has released the volume and the
\* task takes the mutex
SetVolumeLock(p) ==
    /\ CanRun(p) /\ ctl[p].pc = "lock_volume" /\ ~AudioHolds("volume")
    /\ locked' = locked \cup {"volume"}
    /\ Apply(p, [CS(ctl[p]) EXCEPT !.loc.pc = "volume_locked"])
    /\ UNCHANGED << shuffle_enabled, playback_state, audioVars, loop_mode, position,
                    seek_position, seek_reply, source_chan, eventVars, busVars, ipcVars,
                    libVars, volume >>

\* Player::set_volume, called for a request
ReqSetVolume(v) == set_volume_lock(v) /\ UNCHANGED ipcVars

(* the IPC server: a StreamHandler task per connection, on the executor of
   the server *)
SetVolumeMessage(v) == [kind |-> "SetVolume", v |-> v]

\* StreamHandler::handle_set_volume: try_send_message puts Message::SetVolume
\* into the Message channel, which is unbounded, and returns Ok
StreamSetVolume(v) ==
    /\ ~panicked
    /\ response.kind # "Pending" /\ Len(message_chan) < MaxMessages
    /\ message_chan' = Append(message_chan, SetVolumeMessage(v))
    /\ response' = [NoResponse EXCEPT !.kind = "Pending", !.v = v]
    /\ UNCHANGED << listVars, audioVars, current_track_index, playback_state, loop_mode,
                    to_skip, position, seek_position, seek_reply, volume, source_queue,
                    source_chan, eventVars, busVars, libVars, locked, ctl, panicked >>

\* StreamHandler::handle_stream: the reply is written to the client
StreamReply ==
    /\ ~panicked
    /\ response.kind = "Pending"
    /\ response' = [response EXCEPT
                      !.kind = "SetVolume", !.volume = volume,
                      !.queued = Len(message_chan)
                                   + (IF ctl["req"].pc = "volume_locked" THEN 1 ELSE 0)]
    /\ UNCHANGED << listVars, audioVars, current_track_index, playback_state, loop_mode,
                    to_skip, position, seek_position, seek_reply, volume, source_queue,
                    source_chan, eventVars, busVars, libVars, locked, message_chan,
                    ctl, panicked >>

\* AudioServer::handle_messages: Message::SetVolume is received and
\* Player::set_volume called
RecvSetVolume ==
    /\ message_chan # << >>
    /\ set_volume_lock(Head(message_chan).v)
    /\ message_chan' = Tail(message_chan)
    /\ UNCHANGED response

\* Player::set_volume: the clamped volume is stored, the mutex released, and
\* VolumeChanged emitted if the stored volume is not the previous one
SetVolume(p) ==
    /\ CanRun(p) /\ ctl[p].pc = "volume_locked"
    /\ LET v == IF ctl[p].arg.kind = "NaN" THEN NaN ELSE F32(ctl[p].arg.n)
           clamped_volume == Player_set_volume(v)
           changed == f32_ne(clamped_volume, volume)
       IN  /\ volume' = clamped_volume
           /\ event_chan' = IF changed THEN emit(event_chan, VolumeChanged(clamped_volume))
                            ELSE event_chan
           /\ Apply(p, Return(CS(Emitted(p, changed)), "Ok"))
    /\ locked' = locked \ {"volume"}
    /\ UNCHANGED << shuffle_enabled, playback_state, audioVars, loop_mode, position,
                    seek_position, seek_reply, source_chan, listeners, delivered, busVars,
                    ipcVars, libVars >>

\* the response of a request is delivered and the handler takes the next one
ReqReply ==
    /\ CanRun("req") /\ ctl["req"].pc = "done"
    /\ ctl' = [ctl EXCEPT !["req"] = IdleCtl]
    /\ UNCHANGED << listVars, audioVars, current_track_index, playback_state, loop_mode,
                    to_skip, position, seek_position, seek_reply, source_queue,
                    source_chan, event_chan, quietVars, panicked >>

(* AudioServer::forward_events *)
\* the elements of a sequence
Elems(q) == {q[k] : k \in 1 .. Len(q)}

\* a broadcast that gives up at the first listener whose receiver is closed
broadcast_UntilClosed(txs) ==
    LET sent(k) == \A j \in 1 .. k : txs[j] \notin closed
    IN  [ kept |-> SelectSeq(txs, LAMBDA id : id \notin closed),
          sent |-> {txs[k] : k \in {j \in 1 .. Len(txs) : sent(j)}} ]

\* AudioServer::broadcast: retain over the senders with try_send, which
\* fails only for a closed channel; the senders kept and the listeners the
\* event was sent to
broadcast(txs) ==
    [ kept |-> SelectSeq(txs, LAMBDA id : id \notin closed),
      sent |-> {id \in Elems(txs) : id \notin closed} ]

\* one event is received from the Event channel and broadcast to the
\* listeners; the forwarder runs while the other tasks are parked
ForwardEvent ==
    /\ ~panicked /\ \A p \in Procs : Suspended(p)
    /\ event_chan # << >>
    /\ event_chan' = Tail(event_chan)
    /\ delivered' = [ev |-> Head(event_chan), state |-> playback_state]
    /\ LET b == broadcast(broadcast_tx)
       IN  /\ broadcast_tx' = b.kept
           /\ listeners' = Len(b.kept)
           /\ received' = [id \in Subs |-> IF id \in b.sent THEN Head(event_chan)
                                           ELSE received[id]]
    /\ UNCHANGED closed
    /\ UNCHANGED << listVars, audioVars, current_track_index, playback_state, loop_mode,
                    to_skip, position, seek_position, seek_reply, volume, source_queue,
                    source_chan, locked, ipcVars, libVars, ctl, panicked >>

\* AudioServer::register_event_listener, PluginManager::load_plugin after
\* P::init: a new channel is made and its sender pushed onto
\* event_broadcast_tx, under the lock that broadcast takes for its retain
RegisterEventListener ==
    /\ ~panicked
    /\ LET id == Cardinality(Elems(broadcast_tx) \cup closed) + 1
       IN  /\ id \in Subs
           /\ broadcast_tx' = Append(broadcast_tx, id)
           /\ listeners' = Len(broadcast_tx) + 1
    /\ UNCHANGED << closed, received, event_chan, delivered >>
    /\ UNCHANGED << listVars, audioVars, current_track_index, playback_state, loop_mode,
                    to_skip, position, seek_position, seek_reply, volume, source_queue,
                    source_chan, locked, ipcVars, libVars, ctl, panicked >>

\* the receiver of a listener is dropped: its plugin has ended
CloseReceiver(id) ==
    /\ ~panicked /\ id \in Elems(broadcast_tx) /\ id \notin closed
    /\ closed' = closed \cup {id}
    /\ UNCHANGED << listVars, audioVars, current_track_index, playback_state, loop_mode,
                    to_skip, position, seek_position, seek_reply, volume, source_queue,
                    source_chan, eventVars, broadcast_tx, received, locked, ipcVars, libVars,
                    ctl, panicked >>

(* Player::run *)
\* an indicates_end that also holds of Skipped
indicates_end_Skipped(ev) == ev.kind \in {"Finished", "LoopError", "Skipped"}

\* SourceEvent::indicates_end
indicates_end(ev) == ev.kind \in {"Finished", "LoopError"}

\* Player::run: one source event is received; an event that indicates the
\* end of a source starts go_to_next_track, Seeked is emitted as an Event
RunRecv ==
    /\ CanRun("run") /\ ctl["run"].pc = "idle"
    /\ source_chan # << >>
    /\ source_chan' = Tail(source_chan)
    /\ IF indicates_end(Head(source_chan))
       THEN \E out \in go_to_next_track(CS([IdleCtl EXCEPT !.op = "advance"])) :
                Apply("run", out)
       ELSE UNCHANGED << listVars, ctl, current_track_index, to_skip, source_queue, panicked >>
    /\ event_chan' = IF Head(source_chan).kind = "Seeked"
                     THEN emit(event_chan, Seeked(Head(source_chan).pos))
                     ELSE event_chan
    /\ UNCHANGED << shuffle_enabled, audioVars, playback_state, loop_mode,
                    position, seek_position, seek_reply, quietVars >>

(* the steps of the operations after their first await point, for either task *)
\* Player::queue_track(current_track, true) under the lock of source_queue:
\* the source is put into the slot; queue_current_track goes on to the next
\* track
queue_track_current_locked(cs) ==
    LET c == [cs EXCEPT !.sq = SQQueued(cs.loc.cur), !.loc.armed = cs.loc.cur]
    IN  IF cs.loc.next # NoTrack THEN [c EXCEPT !.loc.pc = "load_next"] ELSE AfterQueue(c)

\* Player::queue_track(next_track, _) under the lock of source_queue: the
\* source is put into the slot, or the task waits for the timer while a
\* source is still queued
queue_track_next_locked(cs) ==
    IF cs.loc.force \/ ~is_queued(cs.sq)
    THEN AfterQueue([cs EXCEPT !.sq = SQQueued(cs.loc.next)])
    ELSE [cs EXCEPT !.loc.pc = "wait_queue"]

\* Player::queue_track(current_track, true): the decoder is built (or fails),
\* source_queue is locked and the source put into the slot
QueueTrackCurrent(p, ok) ==
    /\ CanRun(p) /\ ctl[p].pc = "load_cur"
    /\ LET cs == CS(ctl[p]) IN
       Apply(p, IF ~ok THEN Return(cs, "LoadTrack")
                ELSE IF AudioHolds("source_queue") THEN lock_await(cs, "lock_install")
                ELSE queue_track_current_locked(cs))
    /\ UNCHANGED << shuffle_enabled, playback_state, event_chan >> /\ othersUnchanged

\* Player::queue_track(next_track, _): the decoder is built (or fails) and
\* source_queue is locked
QueueTrackLoad(p, ok) ==
    /\ CanRun(p) /\ ctl[p].pc = "load_next"
    /\ LET cs == CS(ctl[p]) IN
       Apply(p, IF ~ok THEN Return(cs, "LoadTrack")
                ELSE IF AudioHolds("source_queue") THEN [cs EXCEPT !.loc.pc = "wait_queue"]
                ELSE queue_track_next_locked(cs))
    /\ UNCHANGED << shuffle_enabled, playback_state, event_chan >> /\ othersUnchanged

\* Player::queue_track(next_track, _): the task is polled again, after the
\* timer or the release of source_queue, finds the slot open and puts the
\* source into it
QueueTrackInstall(p) ==
    /\ CanRun(p) /\ ctl[p].pc = "wait_queue"
    /\ ~AudioHolds("source_queue")
    /\ ctl[p].force \/ ~is_queued(source_queue)
    /\ Apply(p, queue_track_next_locked(CS(ctl[p])))
    /\ UNCHANGED << shuffle_enabled, playback_state, event_chan >> /\ othersUnchanged

\* what a task does once the lock().await it yielded at returns the guard
after_lock(cs) ==
    CASE cs.loc.pc = "lock_clear" -> { clear_source_queue_locked(cs) }
      [] cs.loc.pc = "lock_queue" -> { queue_current_track_locked(cs) }
      [] cs.loc.pc = "lock_install" -> { queue_track_current_locked(cs) }
      [] cs.loc.pc = "lock_seek" -> { seek_locked(cs) }
      [] cs.loc.pc = "lock_position" -> go_to_previous_track_locked(cs, TRUE)

\* Mutex::lock().await of source_queue or position: the audio thread has
\* released the mutex, the task is polled and takes it
LockAcquired(p) ==
    /\ CanRun(p)
    /\ ctl[p].pc \in {"lock_clear", "lock_queue", "lock_install", "lock_seek",
                      "lock_position"}
    /\ ~AudioHolds(LockOf(ctl[p].pc))
    /\ \E out \in after_lock(CS(ctl[p])) : Apply(p, out)
    /\ UNCHANGED << shuffle_enabled, playback_state, event_chan >> /\ othersUnchanged

\* Mutex::lock().await in Player::stop and Player::seek, reached with the
\* mutex held by the audio thread: the task yields
LockPending(p) ==
    /\ CanRun(p)
    /\ ctl[p].pc \in {"stop3", "seek_set"} /\ ~ctl[p].parked
    /\ AudioHolds(LockOf(ctl[p].pc))
    /\ ctl' = [ctl EXCEPT ![p].parked = TRUE]
    /\ UNCHANGED << listVars, audioVars, current_track_index, playback_state, loop_mode,
                    to_skip, position, seek_position, seek_reply, source_queue,
                    source_chan, event_chan, quietVars, panicked >>

\* Player::play: set_playback_state(Playing)
SetPlaying(p) ==
    /\ CanRun(p) /\ ctl[p].pc = "set_playing"
    /\ playback_state' = "Playing"
    /\ event_chan' = set_playback_state(event_chan, "Playing")
    /\ Apply(p, Return(CS(Emitted(p, playback_state # "Playing")), "Ok"))
    /\ UNCHANGED shuffle_enabled /\ othersUnchanged

\* Player::stop: set_playback_state(Stopped)
StopSetState(p) ==
    /\ CanRun(p) /\ ctl[p].pc = "stop2"
    /\ playback_state' = "Stopped"
    /\ event_chan' = set_playback_state(event_chan, "Stopped")
    /\ Apply(p, [CS(Emitted(p, playback_state # "Stopped")) EXCEPT !.loc.pc = "stop3"])
    /\ UNCHANGED shuffle_enabled /\ othersUnchanged

\* a clear_tracks that empties the list and leaves the index where it was
clear_tracks_KeepIndex(cs) == [cs EXCEPT !.tl = << >>, !.sh = << >>]

\* Player::clear_tracks after stop: TrackList::clear and the reset of the index
clear_tracks(cs) == [cs EXCEPT !.tl = << >>, !.sh = << >>, !.idx = 0]

\* Player::stop: the position is reset; in Player::clear_tracks the track
\* list is then cleared and the index reset
StopResetPosition(p) ==
    /\ CanRun(p) /\ ctl[p].pc = "stop3"
    /\ ~AudioHolds("position")
    /\ position' = 0
    /\ LET cs == CS(ctl[p]) IN
       Apply(p, IF cs.loc.sret = "clear" THEN Return(clear_tracks(cs), "Ok")
                ELSE Return(cs, "Ok"))
    /\ UNCHANGED << shuffle_enabled, playback_state, audioVars, loop_mode, seek_position,
                    seek_reply, source_chan, event_chan, quietVars >>

\* Player::seek: the pending seek is written
SeekSet(p) ==
    /\ CanRun(p) /\ ctl[p].pc = "seek_set"
    /\ ~AudioHolds("seek_position")
    /\ seek_position' = ctl[p].seek
    /\ seek_reply' = "None"
    /\ Apply(p, [CS(ctl[p]) EXCEPT !.loc.pc = "seek_wait", !.loc.target = current.track])
    /\ UNCHANGED << shuffle_enabled, playback_state, audioVars, loop_mode, position,
                    source_chan, event_chan, quietVars >>

\* Player::seek: the reply arrives
SeekReplied(p) ==
    /\ CanRun(p) /\ ctl[p].pc = "seek_wait"
    /\ seek_reply # "None"
    /\ seek_reply' = "None"
    /\ Apply(p, Return(CS(ctl[p]), IF seek_reply = "Ok" THEN "Ok" ELSE "SeekFailed"))
    /\ UNCHANGED << shuffle_enabled, playback_state, audioVars, loop_mode, position,
                    seek_position, source_chan, event_chan, quietVars >>

(* ----------------------------- audio thread ----------------------------- *)
Ev(kind, pos) == [kind |-> kind, pos |-> pos]
CanSend == Len(source_chan) < MaxChan

(* The audio thread takes the mutexes of Controls with lock_blocking and
   holds each to the end of the statement or block that took it.  A step that
   takes one waits while a control-plane task holds it: that can only be the
   volume, the one mutex a control-plane task is seen holding, since no task
   keeps a guard across an await point. *)
\* the position of the audio thread once lock_blocking returned the guard
held_pc(pc) ==
    CASE pc = "load" -> "consume"
      [] pc = "volume" -> "set_factor"
      [] pc = "seek" -> "take_seek"
      [] pc = "position" -> "store_position"
      [] pc = "clear" -> "clear_slot"

\* Mutex::lock_blocking on the audio thread: of source_queue in load_next and
\* clear_playing_source, of the volume, the pending seek and the position in
\* control_wrapped_source
LockBlocking ==
    /\ ~panicked /\ apc \in {"load", "volume", "seek", "position", "clear"}
    /\ apc = "volume" => "volume" \notin locked
    /\ apc' = held_pc(apc)
    /\ UNCHANGED << listVars, current, current_track_index, playback_state, loop_mode,
                    to_skip, position, seek_position, seek_reply, source_queue,
                    source_chan, event_chan, quietVars, ctl, panicked >>

\* a consume that hands the Queued source out and leaves it in the slot
consume_KeepQueued(q) ==
    [source |-> IF is_queued(q) THEN q.track ELSE NoTrack,
     state |-> IF is_queued(q) THEN q ELSE SQNone]

\* SourceQueueState::consume: the source handed out (NoTrack for Option::None)
\* and the state the slot is left in
consume(q) ==
    [source |-> IF is_queued(q) THEN q.track ELSE NoTrack,
     state |-> IF is_queued(q) THEN SQPlaying ELSE SQNone]

\* PlayerAudioOutput::load_next once the child is exhausted, under the lock
\* of source_queue: the child becomes the source consume hands out, or the
\* silence filler, after which load_next is due again
LoadNext ==
    /\ ~panicked /\ apc = "consume"
    /\ LET next == consume(source_queue) IN
       /\ IF next.source # NoTrack
          THEN /\ current' = NewSource(next.source)
               /\ apc' = "readback"
          ELSE /\ current' = NoSource
               /\ apc' = "load"
       /\ source_queue' = next.state
    /\ UNCHANGED << listVars, current_track_index, playback_state, loop_mode,
                    to_skip, position, seek_position, seek_reply, source_chan,
                    event_chan, quietVars, ctl, panicked >>

\* a read-back that marks its source to be skipped and leaves the skip
\* counter as it is
ReadBackSkip_KeepCounter ==
    /\ ~panicked /\ apc = "readback"
    /\ IF to_skip > 0
       THEN /\ CanSend
            /\ source_chan' = Append(source_chan, Ev("Skipped", 0))
            /\ apc' = "clear"
       ELSE /\ apc' = "control"
            /\ UNCHANGED source_chan
    /\ UNCHANGED << listVars, current, current_track_index, playback_state, loop_mode,
                    to_skip, position, seek_position, seek_reply, source_queue, event_chan,
                    quietVars, ctl, panicked >>

\* control_wrapped_source: the skip counter is read; a pending skip is
\* consumed, and ControlledSource::next then emits Skipped
ReadBackSkip ==
    /\ ~panicked /\ apc = "readback"
    /\ IF to_skip > 0
       THEN /\ CanSend
            /\ to_skip' = to_skip - 1
            /\ source_chan' = Append(source_chan, Ev("Skipped", 0))
            /\ apc' = "clear"
       ELSE /\ apc' = "control"
            /\ UNCHANGED << to_skip, source_chan >>
    /\ UNCHANGED << listVars, current, current_track_index, playback_state, loop_mode,
                    position, seek_position, seek_reply, source_queue, event_chan,
                    quietVars, ctl, panicked >>

\* the absolute target of a pending seek
SeekTarget(sp, current_position) ==
    CASE sp.kind = "Forward" -> SaturatingAdd(current_position, sp.d)
      [] sp.kind = "Backward" -> SaturatingSub(current_position, sp.d)
      [] sp.kind = "To" -> sp.d

\* TrackDecoder::try_seek: the target is clamped to the total duration
try_seek(src, target) == [src EXCEPT !.pos = Min(target, total_duration(src.track))]

\* a seek that sets the reported position and leaves the decoder where it is
TrackPosition_try_seek_KeepsPlace(src, target) == [src EXCEPT !.tracked = target]

\* TrackPosition::try_seek: the decoder seeks, and the position reported
\* from then on counts from the target it was given
TrackPosition_try_seek(src, target) == [try_seek(src, target) EXCEPT !.tracked = target]

\* control_wrapped_source after the skip check: the pause flag mirrors the
\* playback state
ReadBackPaused ==
    /\ ~panicked /\ apc = "control"
    /\ current' = [current EXCEPT !.paused = playback_state # "Playing"]
    /\ apc' = "volume"
    /\ UNCHANGED << listVars, current_track_index, playback_state, loop_mode,
                    to_skip, position, seek_position, seek_reply, source_queue, source_chan,
                    event_chan, quietVars, ctl, panicked >>

\* control_wrapped_source: the factor is set to the volume, under its lock
ReadBackVolume ==
    /\ ~panicked /\ apc = "set_factor"
    /\ current' = [current EXCEPT !.factor = volume]
    /\ apc' = "seek"
    /\ UNCHANGED << listVars, current_track_index, playback_state, loop_mode,
                    to_skip, position, seek_position, seek_reply, source_queue, source_chan,
                    event_chan, quietVars, ctl, panicked >>

\* control_wrapped_source: under the lock of seek_position a pending seek is
\* taken, carried out and answered, and Seeked is sent
ReadBackSeek(ok) ==
    /\ ~panicked /\ apc = "take_seek"
    /\ LET seeking == seek_position.kind # "None"
           target == SeekTarget(seek_position, current.tracked)
       IN  IF seeking
           THEN /\ CanSend
                /\ seek_position' = NoSeek
                /\ seek_reply' = IF ok THEN "Ok" ELSE "Err"
                /\ source_chan' = Append(source_chan, Ev("Seeked", target))
                /\ current' = IF ok THEN TrackPosition_try_seek(current, target)
                               ELSE current
           ELSE /\ ok
                /\ UNCHANGED << seek_position, seek_reply, source_chan, current >>
    /\ apc' = "position"
    /\ UNCHANGED << listVars, current_track_index, playback_state, loop_mode,
                    to_skip, position, source_queue, event_chan, quietVars, ctl, panicked >>

\* control_wrapped_source: the position of the source is stored, under the
\* lock of the position
ReadBackPosition ==
    /\ ~panicked /\ apc = "store_position"
    /\ position' = current.tracked
    /\ apc' = "next"
    /\ UNCHANGED << listVars, current, current_track_index, playback_state, loop_mode,
                    to_skip, seek_position, seek_reply, source_queue, source_chan,
                    event_chan, quietVars, ctl, panicked >>

\* ControlledSource::next over one interval: samples, silence while paused,
\* or the end of the stream.  The pause flag is not read again before the
\* next read-back overwrites it, so it is kept only up to here.
SourceNext(ok) ==
    /\ ~panicked /\ apc = "next"
    /\ IF current.paused
       THEN /\ ok
            /\ current' = [current EXCEPT !.paused = FALSE]
            /\ apc' = "readback"
            /\ UNCHANGED source_chan
       ELSE IF current.pos < total_duration(current.track)
       THEN /\ ok
            /\ current' = [current EXCEPT !.pos = @ + 1, !.tracked = @ + 1]
            /\ apc' = "readback"
            /\ UNCHANGED source_chan
       ELSE /\ CanSend
            /\ IF loop_mode = "Track"
               THEN IF ok
                    THEN /\ current' = TrackPosition_try_seek(current, 0)
                         /\ source_chan' = Append(source_chan, Ev("Looped", 0))
                         /\ apc' = "readback"
                    ELSE /\ source_chan' = Append(source_chan, Ev("LoopError", 0))
                         /\ apc' = "clear"
                         /\ current' = current
               ELSE /\ ok
                    /\ source_chan' = Append(source_chan, Ev("Finished", 0))
                    /\ apc' = "clear"
                    /\ current' = current
    /\ UNCHANGED << listVars, current_track_index, playback_state, loop_mode,
                    to_skip, position, seek_position, seek_reply, source_queue,
                    event_chan, quietVars, ctl, panicked >>

\* a terminating source that empties the slot whatever it holds
ClearPlayingSource_Always ==
    /\ ~panicked /\ apc = "clear_slot"
    /\ source_queue' = SQNone
    /\ current' = NoSource
    /\ apc' = "load"
    /\ UNCHANGED << listVars, current_track_index, playback_state, loop_mode,
                    to_skip, position, seek_position, seek_reply, source_chan,
                    event_chan, quietVars, ctl, panicked >>

\* ControlledSource::clear_playing_source of a source that terminates, under
\* the lock of source_queue
ClearPlayingSource ==
    /\ ~panicked /\ apc = "clear_slot"
    /\ source_queue' = IF source_queue.st = "Playing" THEN SQNone ELSE source_queue
    /\ current' = NoSource
    /\ apc' = "load"
    /\ UNCHANGED << listVars, current_track_index, playback_state, loop_mode,
                    to_skip, position, seek_position, seek_reply, source_chan,
                    event_chan, quietVars, ctl, panicked >>

(* --------------------------- specifications ----------------------------- *)
LoopModes == {"None", "Track", "Playlist"}

\* the audio thread: one pull of the output after another
Audio ==
    \/ LockBlocking
    \/ LoadNext
    \/ ReadBackSkip
    \/ ReadBackPaused
    \/ ReadBackVolume
    \/ \E ok \in BOOLEAN : ReadBackSeek(ok)
    \/ ReadBackPosition
    \/ \E ok \in BOOLEAN : SourceNext(ok)
    \/ ClearPlayingSource

\* queue_current_track and queue_track after their await points
QueueSteps(p) ==
    \/ \E ok \in BOOLEAN : QueueTrackCurrent(p, ok)
    \/ \E ok \in BOOLEAN : QueueTrackLoad(p, ok)
    \/ QueueTrackInstall(p)

\* Player::stop after clear_source_queue
StopSteps(p) ==
    \/ StopSetState(p)
    \/ StopResetPosition(p)

(* The track list under the requests that edit it and move the index, the
   player staying Stopped: nothing is armed and the audio thread pulls the
   silence filler, locking source_queue for every one.  Lists grow to
   MaxLen + 1 tracks, so that tracks are inserted at every index of a list of
   MaxLen tracks, in any shuffled order and with the current index anywhere
   in it. *)
Positions == {Absolute(i) : i \in 0 .. MaxLen + 1}
                \cup {Relative(d) : d \in {ISIZE_MIN} \cup (-2 .. 2)}
                \cup {Start, End, Replace}
NewTracks == {<< >>} \cup {<<t>> : t \in Tracks} \cup {<<t, u>> : t, u \in Tracks}

NextTrackList ==
    \/ \E p \in Positions, ts \in NewTracks : ReqInsert(p, ts, MaxLen + 1)
    \/ ReqClear
    \/ \E b \in BOOLEAN : ReqSetShuffle(b)
    \/ ReqNext
    \/ \E soft \in BOOLEAN : ReqPrev(soft)
    \/ \E m \in LoopModes : ReqSetLoopMode(m)
    \/ LockAcquired("req")
    \/ StopSteps("req")
    \/ ReqReply
    \/ ForwardEvent
    \/ LockBlocking
    \/ LoadNext

SpecTrackList == Init /\ [][NextTrackList]_vars

(* The player: tracks are appended, played to their end and stopped, while
   the run loop advances at every natural end. *)
PNewTracks == {<<t>> : t \in Tracks} \cup {<<1, 2>>}
ShortTracks == {<<1>>}
TwoTracks == {<< 1, 2 >>}

\* the steps of the run loop and of the operations it or a request started
Background ==
    \/ RunRecv
    \/ \E p \in Procs : LockAcquired(p)
    \/ \E p \in Procs : QueueSteps(p)
    \/ \E p \in Procs : SetPlaying(p)
    \/ \E p \in Procs : StopSteps(p)
    \/ \E p \in Procs : LockPending(p)
    \/ ReqReply
    \/ ForwardEvent
    \/ Audio

Next ==
    \/ \E ts \in PNewTracks : ReqInsert(End, ts, PMaxLen)
    \/ ReqPlay
    \/ ReqStop
    \/ Background

Spec == Init /\ [][Next]_vars

(* What the scheduling guarantees: the output device keeps pulling the audio
   thread, and the executor keeps polling a task that can continue.  A task
   that waits for a mutex the audio thread takes again and again gets it in
   the end: the mutex lets a starved waiter go first.  No request is ever
   bound to arrive. *)
Fairness ==
    /\ WF_vars(Audio)
    /\ WF_vars(RunRecv)
    /\ WF_vars(ReqReply)
    /\ WF_vars(ForwardEvent)
    /\ \A p \in Procs :
         /\ WF_vars(QueueSteps(p))
         /\ WF_vars(SetPlaying(p))
         /\ SF_vars(LockAcquired(p))
         /\ SF_vars(StopSteps(p))
         /\ SF_vars(SeekSet(p) \/ SeekReplied(p))

FairSpec == Spec /\ Fairness

(* The player with a replacement of the list while a track plays: a list of
   two tracks is appended or put in the place of the list. *)
NextReplace ==
    \/ \E p \in {End, Replace}, ts \in TwoTracks : ReqInsert(p, ts, PMaxLen)
    \/ ReqPlay
    \/ ReqPause
    \/ Background

SpecReplace == Init /\ [][NextReplace]_vars

(* The player with a replacement of the list while a track plays or is
   paused: a request arrives once the forwarder has handed on every event,
   play arrives while the player is Stopped and pause while it is Playing. *)
NextReplacePaused ==
    \/ /\ event_chan = << >>
       /\ \/ \E p \in {End, Replace}, ts \in TwoTracks : ReqInsert(p, ts, PMaxLen)
          \/ playback_state = "Stopped" /\ ReqPlay
          \/ playback_state = "Playing" /\ ReqPause
    \/ Background

SpecReplacePaused == Init /\ [][NextReplacePaused]_vars

(* The same under the scheduling, with one more guarantee of the executor: a
   task whose next step is ready again and again is polled, however often the
   other task takes the executor in between. *)
FairSpecReplace ==
    /\ SpecReplacePaused /\ Fairness
    /\ \A p \in Procs : SF_vars(QueueSteps(p))

(* The player with next_track under Loop Mode None, which it starts in, and
   under Loop Mode Playlist. *)
NextWrap ==
    \/ \E ts \in ShortTracks : ReqInsert(End, ts, PMaxLen)
    \/ ReqPlay
    \/ ReqNext
    \/ ReqSetLoopMode("Playlist")
    \/ Background

SpecWrap == Init /\ [][NextWrap]_vars

(* The player with seeks into the playing track. *)
SeekPositions == {SeekTo(0), SeekBackward(1)}

NextSeek ==
    \/ \E ts \in TwoTracks : ReqInsert(End, ts, PMaxLen)
    \/ ReqPlay
    \/ \E sp \in SeekPositions : ReqSeek(sp)
    \/ \E p \in Procs : SeekSet(p) \/ SeekReplied(p)
    \/ Background

SpecSeek == Init /\ [][NextSeek]_vars

FairSpecSeek == SpecSeek /\ Fairness

(* The player with previous_track into a track long enough to be restarted. *)
LongTracks == {<<NumTracks>>}

NextRestart ==
    \/ \E ts \in LongTracks : ReqInsert(End, ts, PMaxLen)
    \/ ReqPlay
    \/ \E soft \in BOOLEAN : ReqPrev(soft)
    \/ \E p \in Procs : SeekSet(p) \/ SeekReplied(p)
    \/ Background

SpecRestart == Init /\ [][NextRestart]_vars

(* The player with a listener: a short track is played and paused while the
   forwarder hands the events on. *)
NextPause ==
    \/ \E ts \in ShortTracks : ReqInsert(End, ts, PMaxLen)
    \/ ReqPlay
    \/ ReqPause
    \/ Background

SpecPause == InitListening /\ [][NextPause]_vars

(* The player with a listener: tracks are appended, played and stopped while
   the forwarder hands the events on. *)
NextEvents ==
    \/ \E ts \in PNewTracks : ReqInsert(End, ts, PMaxLen)
    \/ ReqPlay
    \/ ReqStop
    \/ Background

SpecEvents == InitListening /\ [][NextEvents]_vars

(* The player with a listener and a replacement of the list while a track
   plays. *)
NextReplaceEvents ==
    \/ \E p \in {End, Replace}, ts \in PNewTracks : ReqInsert(p, ts, PMaxLen)
    \/ ReqPlay
    \/ Background

SpecReplaceEvents == InitListening /\ [][NextReplaceEvents]_vars

(* track.rs: the file system as the loader sees it *)
\* fs::metadata(path) is Ok
Exists(path) == IF path \in Dirs THEN fs.dir[path].state # "Missing"
                ELSE fs.status[path] # "Missing"

\* load_file: the file is opened, probed, a decoder is made for its first
\* track with a codec and the first frame decoded; Ok for an audio file.  A
\* directory can be opened and fails the probe.
load_file(path) ==
    IF ~Exists(path) THEN "OpenFailed"
    ELSE IF path \in Dirs THEN "ProbeFailed"
    ELSE CASE fs.status[path] = "NotAudio" -> "ProbeFailed"
           [] fs.status[path] = "NoCodec" -> "CodecNotSupported"
           [] fs.status[path] = "BadFrame" -> "DecodingFailed"
           [] OTHER -> "Ok"

(* TrackCache *)
\* everything but the cache stays as it is
cacheFrame == UNCHANGED << track_list, shuffled_track_indicies, shuffle_enabled,
                           current_track_index, playback_state, loop_mode, to_skip,
                           position, seek_position, seek_reply, volume, source_queue,
                           current, apc, source_chan, event_chan, listeners, delivered,
                           locked, busVars, ipcVars, loadVars, clientVars, ctl,
                           panicked >>

\* Weak::upgrade: the Track a Weak gives, NoArc if no strong reference is left
upgrade(weak) == IF weak # NoArc /\ arcs[weak].strong > 0 THEN weak ELSE NoArc

\* TrackCache::get_or_load_track up to its await of load_file, called with
\* the path of a file that exists: the lookup in loaded_tracks and the
\* upgrade of the Weak found
CacheLookup(c, path) ==
    /\ loader[c].pc = "idle" /\ Exists(path)
    /\ LET track == upgrade(loaded_tracks[path])
       IN IF track # NoArc
          THEN /\ arcs' = [arcs EXCEPT ![track].strong = @ + 1]
               /\ loader' = [loader EXCEPT ![c] = [pc |-> "done", path |-> path,
                                                   track |-> track]]
          ELSE /\ arcs' = arcs
               /\ loader' = [loader EXCEPT ![c] = [pc |-> "loading", path |-> path,
                                                   track |-> NoArc]]
    /\ UNCHANGED loaded_tracks /\ cacheFrame

\* load_file returned Ok: the Track is put into a new Arc and its Weak
\* inserted under the path of the Track
CacheInsert(c) ==
    /\ loader[c].pc = "loading" /\ Len(arcs) < MaxArcs
    /\ load_file(loader[c].path) = "Ok"
    /\ arcs' = Append(arcs, [path |-> loader[c].path, strong |-> 1])
    /\ loaded_tracks' = [loaded_tracks EXCEPT ![loader[c].path] = Len(arcs) + 1]
    /\ loader' = [loader EXCEPT ![c].pc = "done", ![c].track = Len(arcs) + 1]
    /\ cacheFrame

\* load_file returned Err: the call returns it
CacheLoadFailed(c) ==
    /\ loader[c].pc = "loading"
    /\ load_file(loader[c].path) # "Ok"
    /\ loader' = [loader EXCEPT ![c] = IdleLoad]
    /\ UNCHANGED << loaded_tracks, arcs >> /\ cacheFrame

\* the caller drops the Arc it was given
DropTrack(c) ==
    /\ loader[c].pc = "done"
    /\ arcs' = [arcs EXCEPT ![loader[c].track].strong = @ - 1]
    /\ loader' = [loader EXCEPT ![c] = IdleLoad]
    /\ UNCHANGED loaded_tracks /\ cacheFrame

\* what a file can be: an audio file, no file at all, a file that is no
\* audio, one without a track whose codec is supported, one whose first frame
\* does not decode
FileStates == {"Ok", "Missing", "NotAudio", "NoCodec", "BadFrame"}

\* a server with an empty cache, over files of every kind
InitCache ==
    /\ InitServer(0)
    /\ \E status \in [Paths -> FileStates] :
          fs = [NoFs EXCEPT !.status = status]
    /\ paths = << >>
    /\ loaded = NoLoaded
    /\ InitClient(FALSE)

(* The track cache with NumLoads calls of get_or_load_track in progress. *)
NextCache ==
    \/ \E c \in Loads, path \in Paths : CacheLookup(c, path)
    \/ \E c \in Loads : CacheInsert(c)
    \/ \E c \in Loads : CacheLoadFailed(c)
    \/ \E c \in Loads : DropTrack(c)

SpecCache == InitCache /\ [][NextCache]_vars

(* The track cache with one call at a time, as from a loop that awaits each
   get_or_load_track before the next. *)
OneAtATime(c) == \A d \in Loads \ {c} : loader[d].pc # "loading"

NextCacheSerial ==
    \/ \E c \in Loads, path \in Paths : OneAtATime(c) /\ CacheLookup(c, path)
    \/ \E c \in Loads : CacheInsert(c)
    \/ \E c \in Loads : CacheLoadFailed(c)
    \/ \E c \in Loads : DropTrack(c)

SpecCacheSerial == InitCache /\ [][NextCacheSerial]_vars

\* get_cannonical_track_path: fs::canonicalize fails for a path that does
\* not lead to a file or directory
get_cannonical_track_path(path) ==
    IF Exists(path) THEN [ok |-> TRUE, path |-> path, error |-> "-"]
    ELSE [ok |-> FALSE, path |-> path, error |-> "CannonicalizeFailed"]

(* track/cache.rs: sort_tracks *)
\* the order of the characters (their code points) and str::to_lowercase
Code(ch) == CASE ch = "A" -> 1 [] ch = "B" -> 2 [] ch = "a" -> 3 [] ch = "b" -> 4
to_lowercase(str) == [k \in 1 .. Len(str) |->
                        CASE str[k] = "A" -> "a" [] str[k] = "B" -> "b" [] OTHER -> str[k]]

\* Ord for String: lexicographic, a proper prefix first
RECURSIVE StrLess(_, _)
StrLess(x, y) ==
    IF y = << >> THEN FALSE
    ELSE IF x = << >> THEN TRUE
    ELSE IF Head(x) # Head(y) THEN Code(Head(x)) < Code(Head(y))
    ELSE StrLess(Tail(x), Tail(y))

\* Ord for Option: None is less than every Some
OptNumLess(x, y) == IF x.some /\ y.some THEN x.v < y.v ELSE ~x.some /\ y.some
OptStrLess(x, y) == IF x.some /\ y.some THEN StrLess(x.v, y.v) ELSE ~x.some /\ y.some

\* Path::file_stem of a file
StemChars == << "a", "B", "b", "A" >>
file_stem(path) == << StemChars[((path - 1) % Len(StemChars)) + 1] >>

\* get_track_title: the title in lower case, the file stem as it is for a
\* track without a title
get_track_title(track) ==
    IF track.meta.title.some THEN to_lowercase(track.meta.title.v) ELSE file_stem(track.path)

\* slice::sort_by: a stable sort, an element stays behind the earlier
\* elements that are not greater; `less` is the order, a function of two
\* elements
StableSort(q, less) ==
    LET Before(i) == {j \in 1 .. Len(q) :
                        \/ less[q[j], q[i]]
                        \/ ~less[q[i], q[j]] /\ j < i}
    IN [k \in 1 .. Len(q) |-> q[CHOOSE i \in 1 .. Len(q) : Cardinality(Before(i)) = k - 1]]

TitleLess(a, b) == StrLess(get_track_title(a), get_track_title(b))
NumberLess(a, b) == OptNumLess(a.meta.track_number, b.meta.track_number)
AlbumLess(a, b) == OptStrLess(a.meta.album, b.meta.album)

\* TrackCache::sort_tracks
sort_tracks(tracks) ==
    LET Order(Less(_, _)) == [a \in Elems(tracks), b \in Elems(tracks) |-> Less(a, b)]
    IN StableSort(StableSort(StableSort(tracks, Order(TitleLess)), Order(NumberLess)),
                  Order(AlbumLess))

(* get_or_load_tracks, from one await to the next *)
loadFrame == UNCHANGED << track_list, shuffled_track_indicies, shuffle_enabled,
                          current_track_index, playback_state, loop_mode, to_skip,
                          position, seek_position, seek_reply, volume, source_queue,
                          current, apc, source_chan, event_chan, listeners, delivered,
                          locked, busVars, ipcVars, loader, fs, paths, clientVars, ctl,
                          panicked >>

\* errors.push((path, error))
push_error(w, path, error) == [w EXCEPT !.errors = Append(@, LoadError(path, error))]

\* tracks.push(track) in search_file_or_directory: `tracks` is the vector of
\* the directory being read, or the one of get_or_load_tracks
push_track(w, track) ==
    IF w.stack = << >> THEN [w EXCEPT !.tracks = Append(@, track)]
    ELSE [w EXCEPT !.stack[Len(w.stack)].tracks = Append(@, track)]

\* what the call awaits next: the next entry of the directory it reads, else
\* the metadata of the next path of the request, else it returns
walk_on(w) ==
    IF w.stack # << >> THEN [w EXCEPT !.pc = "entry"]
    ELSE IF w.todo # << >>
    THEN [w EXCEPT !.pc = "metadata", !.path = Head(w.todo), !.todo = Tail(w.todo)]
    ELSE [w EXCEPT !.pc = "returned"]

\* loaded_tracks.get(path).and_then(|weak| weak.upgrade())
cache_get(path) == IF path \in Paths THEN upgrade(loaded_tracks[path]) ELSE NoArc

\* a directory whose reading begins
NewFrame(d) == [dir |-> d, entries |-> fs.dir[d].entries, tracks |-> << >>]

(* track_cache.rs over the streams of track.rs *)
\* AudioServer::handle_message, Message::InsertTracks: get_or_load_tracks of
\* track_cache.rs, up to the metadata of the first path; handle_messages
\* takes no message while another is handled
GetOrLoadTracksStream ==
    /\ loaded.pc = "idle" /\ paths # << >>
    /\ \A c \in Loads : loader[c].pc # "loading"
    /\ loaded' = walk_on([NoLoaded EXCEPT !.by = "track_cache.rs", !.todo = paths])
    /\ UNCHANGED << loaded_tracks, arcs >> /\ loadFrame

\* track.rs search_file_or_directory: fs::metadata has returned
StreamFileOrDirectory ==
    /\ loaded.by = "track_cache.rs" /\ loaded.pc = "metadata"
    /\ loaded' = IF ~Exists(loaded.path)
                 THEN walk_on(push_error(loaded, loaded.path, "OpenFailed"))
                 ELSE IF loaded.path \in Dirs THEN [loaded EXCEPT !.pc = "read_dir"]
                 ELSE [loaded EXCEPT !.pc = "canonicalize"]
    /\ UNCHANGED << loaded_tracks, arcs >> /\ loadFrame

\* track.rs search_directory: fs::read_dir has returned
StreamDirectory ==
    /\ loaded.by = "track_cache.rs" /\ loaded.pc = "read_dir"
    /\ loaded' = IF fs.dir[loaded.path].state # "Readable"
                 THEN walk_on(push_error(loaded, loaded.path, "ReadDirFailed"))
                 ELSE [loaded EXCEPT !.stack = << NewFrame(loaded.path) >>, !.pc = "entry"]
    /\ UNCHANGED << loaded_tracks, arcs >> /\ loadFrame

\* track.rs search_directory: entries.next() has returned; the stream ends
\* with the entries, and at the first entry whose read failed
StreamEntry ==
    /\ loaded.by = "track_cache.rs" /\ loaded.pc = "entry"
    /\ LET top == loaded.stack[1]
       IN  loaded' =
             IF top.entries = << >> THEN walk_on([loaded EXCEPT !.stack = << >>])
             ELSE IF Head(top.entries) = IoErr
             THEN walk_on([push_error(loaded, top.dir, "ReadDirFailed") EXCEPT !.stack = << >>])
             ELSE [loaded EXCEPT !.stack[1].entries = Tail(@), !.path = Head(top.entries),
                                 !.pc = "canonicalize"]
    /\ UNCHANGED << loaded_tracks, arcs >> /\ loadFrame

\* get_cannonical_track_path has returned: the item of the stream is an
\* error, or a path that TrackCache::get_or_load_track of track_cache.rs
\* looks up
StreamGetOrLoadTrack ==
    /\ loaded.by = "track_cache.rs" /\ loaded.pc = "canonicalize"
    /\ LET found == get_cannonical_track_path(loaded.path)
           track == cache_get(loaded.path)
       IN  IF ~found.ok
           THEN /\ loaded' = walk_on(push_error(loaded, loaded.path, found.error))
                /\ UNCHANGED << loaded_tracks, arcs >>
           ELSE IF track # NoArc
           THEN /\ arcs' = [arcs EXCEPT ![track].strong = @ + 1]
                /\ loaded' = walk_on([loaded EXCEPT !.tracks =
                                        Append(@, LoadedTrack(loaded.path, track))])
                /\ UNCHANGED loaded_tracks
           ELSE /\ loaded' = [loaded EXCEPT !.pc = "load_file"]
                /\ UNCHANGED << loaded_tracks, arcs >>
    /\ loadFrame

\* TrackCache::get_or_load_track of track_cache.rs: load_file has returned
StreamLoadFile ==
    /\ loaded.by = "track_cache.rs" /\ loaded.pc = "load_file"
    /\ LET res == load_file(loaded.path)
           new == Len(arcs) + 1
       IN  IF res = "Ok"
           THEN /\ arcs' = Append(arcs, [path |-> loaded.path, strong |-> 1])
                /\ loaded_tracks' = [loaded_tracks EXCEPT ![loaded.path] = new]
                /\ loaded' = walk_on([loaded EXCEPT !.tracks =
                                        Append(@, LoadedTrack(loaded.path, new))])
           ELSE /\ loaded' = walk_on(push_error(loaded, loaded.path, res))
                /\ UNCHANGED << loaded_tracks, arcs >>
    /\ loadFrame

\* the steps of a call of track_cache.rs
StreamSteps ==
    \/ StreamFileOrDirectory
    \/ StreamDirectory
    \/ StreamEntry
    \/ StreamGetOrLoadTrack
    \/ StreamLoadFile

(* track/cache.rs: the walk *)
\* AudioServer::handle_load_tracks: get_or_load_tracks of track/cache.rs, up
\* to the metadata of the first path
GetOrLoadTracks ==
    /\ loaded.pc = "idle" /\ paths # << >>
    /\ loaded' = walk_on([NoLoaded EXCEPT !.by = "track/cache.rs", !.todo = paths])
    /\ UNCHANGED << loaded_tracks, arcs >> /\ loadFrame

\* TrackCache::search_file_or_directory: fs::metadata has returned
SearchFileOrDirectory ==
    /\ loaded.by = "track/cache.rs" /\ loaded.pc = "metadata"
    /\ loaded' = IF ~Exists(loaded.path)
                 THEN walk_on(push_error(loaded, loaded.path, "OpenFailed"))
                 ELSE IF loaded.path \in Dirs THEN [loaded EXCEPT !.pc = "read_dir"]
                 ELSE [loaded EXCEPT !.pc = "canonicalize"]
    /\ UNCHANGED << loaded_tracks, arcs >> /\ loadFrame

\* TrackCache::search_directory: fs::read_dir has returned
SearchDirectory ==
    /\ loaded.by = "track/cache.rs" /\ loaded.pc = "read_dir"
    /\ loaded' = IF fs.dir[loaded.path].state # "Readable"
                 THEN walk_on(push_error(loaded, loaded.path, "ReadDirFailed"))
                 ELSE [loaded EXCEPT !.stack = Append(@, NewFrame(loaded.path)),
                                     !.pc = "entry"]
    /\ UNCHANGED << loaded_tracks, arcs >> /\ loadFrame

\* TrackCache::search_directory: entries.next() has returned.  An entry
\* whose read failed is an error and the loop goes on; after the last entry
\* the Tracks of the directory are sorted and added to those of the caller.
SearchDirectoryEntry ==
    /\ loaded.by = "track/cache.rs" /\ loaded.pc = "entry"
    /\ LET n == Len(loaded.stack)
           top == loaded.stack[n]
           outer == [loaded EXCEPT !.stack = SubSeq(@, 1, n - 1)]
       IN  loaded' =
             IF top.entries = << >>
             THEN walk_on(IF n = 1
                          THEN [outer EXCEPT !.tracks = @ \o sort_tracks(top.tracks)]
                          ELSE [outer EXCEPT !.stack[n - 1].tracks =
                                               @ \o sort_tracks(top.tracks)])
             ELSE IF Head(top.entries) = IoErr
             THEN [push_error(loaded, top.dir, "ReadDirFailed")
                     EXCEPT !.stack[n].entries = Tail(@)]
             ELSE [loaded EXCEPT !.stack[n].entries = Tail(@), !.path = Head(top.entries),
                                 !.pc = "metadata"]
    /\ UNCHANGED << loaded_tracks, arcs >> /\ loadFrame

\* TrackCache::get_or_load_track of track/cache.rs: get_cannonical_track_path
\* has returned and the path is looked up
GetOrLoadTrack ==
    /\ loaded.by = "track/cache.rs" /\ loaded.pc = "canonicalize"
    /\ LET found == get_cannonical_track_path(loaded.path)
           track == cache_get(loaded.path)
       IN  IF ~found.ok
           THEN /\ loaded' = walk_on(push_error(loaded, loaded.path, found.error))
                /\ UNCHANGED << loaded_tracks, arcs >>
           ELSE IF track # NoArc
           THEN /\ arcs' = [arcs EXCEPT ![track].strong = @ + 1]
                /\ loaded' = walk_on(push_track(loaded, LoadedTrack(loaded.path, track)))
                /\ UNCHANGED loaded_tracks
           ELSE /\ loaded' = [loaded EXCEPT !.pc = "load_file"]
                /\ UNCHANGED << loaded_tracks, arcs >>
    /\ loadFrame

\* TrackCache::get_or_load_track of track/cache.rs: load_file has returned
LoadFile ==
    /\ loaded.by = "track/cache.rs" /\ loaded.pc = "load_file"
    /\ LET res == load_file(loaded.path)
           new == Len(arcs) + 1
       IN  IF res = "Ok"
           THEN /\ arcs' = Append(arcs, [path |-> loaded.path, strong |-> 1])
                /\ loaded_tracks' = [loaded_tracks EXCEPT ![loaded.path] = new]
                /\ loaded' = walk_on(push_track(loaded, LoadedTrack(loaded.path, new)))
           ELSE /\ loaded' = walk_on(push_error(loaded, loaded.path, res))
                /\ UNCHANGED << loaded_tracks, arcs >>
    /\ loadFrame

\* the steps of a call of track/cache.rs
SearchSteps ==
    \/ SearchFileOrDirectory
    \/ SearchDirectory
    \/ SearchDirectoryEntry
    \/ GetOrLoadTrack
    \/ LoadFile

\* the sequences over a set, up to a length
SeqsUpTo(S, n) == UNION {[1 .. k -> S] : k \in 0 .. n}

\* the listings a directory can have: no path twice
Listings(S) == {q \in SeqsUpTo(S \cup {IoErr}, MaxEntries) :
                  \A i, j \in 1 .. Len(q) : q[i] = q[j] /\ q[i] # IoErr => i = j}
DirStates(S) == {NoDir, [state |-> "Unreadable", entries |-> << >>]}
                  \cup {[state |-> "Readable", entries |-> q] : q \in Listings(S)}

\* the directory within the directory: missing, or with one file
SubStates == {NoDir, [state |-> "Readable", entries |-> << 1 >>]}

(* get_or_load_tracks on files of every kind and on directories, with tags
   that play no part, while another call of get_or_load_track looks files up,
   loads them and drops them. *)
InitLoad ==
    /\ InitServer(0)
    /\ \E status \in [Paths -> FileStates],
          dir \in DirStates(Paths \cup {Sub}), sub \in SubStates :
          fs = [status |-> status, meta |-> [path \in Paths |-> NoMeta],
                dir |-> [d \in Dirs |-> IF d = Dir THEN dir ELSE sub]]
    /\ paths \in SeqsUpTo(Paths \cup Dirs, MaxRequest) \ {<< >>}
    /\ loaded = NoLoaded
    /\ InitClient(FALSE)

\* another call of get_or_load_track can begin: handle_messages, which
\* calls track_cache.rs, handles one message at a time
OtherCall == loaded.by # "track_cache.rs" \/ loaded.pc = "returned"

\* the call of get_or_load_track that runs beside get_or_load_tracks
Other == 1

NextLoad ==
    \/ GetOrLoadTracksStream
    \/ StreamSteps
    \/ GetOrLoadTracks
    \/ SearchSteps
    \/ \E path \in Paths : OtherCall /\ CacheLookup(Other, path)
    \/ CacheInsert(Other)
    \/ CacheLoadFailed(Other)
    \/ DropTrack(Other)

SpecLoad == InitLoad /\ [][NextLoad]_vars

(* get_or_load_tracks on one directory of audio files with every
   combination of tags. *)
Albums == {NoneStr, SomeStr(<< "a" >>)}
TrackNumbers == {NoneNum, SomeNum(1), SomeNum(2)}
Titles == {NoneStr, SomeStr(<< "B" >>), SomeStr(<< "a" >>)}
Metas == [album : Albums, track_number : TrackNumbers, title : Titles]

InitSort ==
    /\ InitServer(0)
    /\ \E meta \in [Paths -> Metas], q \in Listings(Paths) :
          fs = [status |-> [path \in Paths |-> "Ok"], meta |-> meta,
                dir |-> [d \in Dirs |-> IF d = Dir
                                         THEN [state |-> "Readable", entries |-> q]
                                         ELSE NoDir]]
    /\ paths = << Dir >>
    /\ loaded = NoLoaded
    /\ InitClient(FALSE)

NextSort ==
    \/ GetOrLoadTracks
    \/ SearchSteps

SpecSort == InitSort /\ [][NextSort]_vars

(* core/client TrackList *)
\* TrackList::needs_sync
needs_sync == ~client.needs_sync

\* Vec::splice(index..index, tracks)
vec_splice(v, index, tracks) == SubSeq(v, 1, index) \o tracks \o SubSeq(v, index + 1, Len(v))

\* Vec::retain with the closure of the Remove arm: the element at `index`
\* is retained if removed_indicies contains index
retain_removed(v, removed_indicies) ==
    LET kept == {k \in 1 .. Len(v) : (k - 1) \in Elems(removed_indicies)}
        f[k \in 0 .. Len(v)] ==
            IF k = 0 THEN << >> ELSE IF k \in kept THEN Append(f[k - 1], v[k]) ELSE f[k - 1]
    IN f[Len(v)]

\* the debug_assert_eq!(track_list.len(), shuffle_indicies.len()) fails
AssertFails(cl) == debug_assertions /\ Len(cl.track_list) # Len(cl.shuffle_indicies)

\* the end of TrackList::update: the closing debug_assert_eq!, then Ok(())
update_end(cl) == [client |-> cl, res |-> IF AssertFails(cl) THEN "Panic" ELSE "Ok"]

update_err(cl) == [client |-> [cl EXCEPT !.needs_sync = TRUE], res |-> "Err"]

\* TrackList::sync: the debug_assert_eq! on the snapshot's two lengths comes
\* before the assignments, so a panic leaves the TrackList as it was
sync(cl, snapshot_track_list, snapshot_shuffle_indicies) ==
    IF debug_assertions /\ Len(snapshot_track_list) # Len(snapshot_shuffle_indicies)
    THEN [client |-> cl, res |-> "Panic"]
    ELSE [client |-> [track_list |-> snapshot_track_list,
                      shuffle_indicies |-> snapshot_shuffle_indicies,
                      needs_sync |-> FALSE],
          res |-> "Ok"]

\* TrackList::update: the TrackList after it and what it returns; a panic
\* leaves the vectors as they were when it struck
update(cl, u) ==
    IF AssertFails(cl) THEN [client |-> cl, res |-> "Panic"]
    ELSE CASE u.kind = "Insert" ->
                IF Len(cl.track_list) + Len(u.tracks) # Len(u.new_shuffle_indicies)
                THEN update_err(cl)
                ELSE IF u.index > Len(cl.track_list) THEN [client |-> cl, res |-> "Panic"]
                ELSE update_end([cl EXCEPT
                                   !.track_list = vec_splice(@, u.index, u.tracks),
                                   !.shuffle_indicies = u.new_shuffle_indicies])
           [] u.kind = "Remove" ->
                IF debug_assertions /\ Len(u.removed_indicies) > Len(cl.track_list)
                THEN [client |-> cl, res |-> "Panic"]
                ELSE IF (Len(cl.track_list) - Len(u.removed_indicies)) % USIZE_MOD
                          # Len(u.new_shuffle_indicies)
                THEN update_err(cl)
                ELSE update_end([cl EXCEPT
                                   !.track_list = retain_removed(@, u.removed_indicies),
                                   !.shuffle_indicies = u.new_shuffle_indicies])
           [] u.kind = "Replace" ->
                LET synced == sync(cl, u.tracks, u.new_shuffle_indicies)
                IN IF synced.res = "Panic" THEN synced ELSE update_end(synced.client)
           [] u.kind = "Clear" ->
                update_end([track_list |-> << >>, shuffle_indicies |-> << >>,
                            needs_sync |-> FALSE])
           [] u.kind = "Shuffle" ->
                IF Len(cl.track_list) # Len(u.new_shuffle_indicies)
                THEN update_err(cl)
                ELSE update_end([cl EXCEPT !.shuffle_indicies = u.new_shuffle_indicies])

\* TrackListUpdate
TrackListUpdate(kind, index, tracks, removed_indicies, new_shuffle_indicies) ==
    [kind |-> kind, index |-> index, tracks |-> tracks,
     removed_indicies |-> removed_indicies, new_shuffle_indicies |-> new_shuffle_indicies]

\* the vectors an update or a snapshot can carry
TrackVecs == SeqsUpTo(Tracks, MaxLen)
IndexVecs == SeqsUpTo(0 .. MaxLen - 1, MaxLen)

clientFrame == UNCHANGED << track_list, shuffled_track_indicies, shuffle_enabled,
                            current_track_index, playback_state, loop_mode, to_skip,
                            position, seek_position, seek_reply, volume, source_queue,
                            current, apc, source_chan, event_chan, listeners, delivered,
                            locked, busVars, ipcVars, cacheVars, loadVars,
                            debug_assertions, ctl, panicked >>

\* the client has not panicked
ClientRuns == applied.res # "Panic"

\* the client gives an update it received to TrackList::update
Update(u) ==
    /\ ClientRuns
    /\ LET out == update(client, u)
       IN /\ client' = out.client
          /\ applied' = [kind |-> u.kind, res |-> out.res, removed |-> u.removed_indicies,
                          before |-> [track_list |-> client.track_list,
                                      shuffle_indicies |-> client.shuffle_indicies],
                          out_of_sync |-> IF out.res = "Err" THEN TRUE
                                          ELSE IF u.kind \in {"Replace", "Clear"} THEN FALSE
                                          ELSE applied.out_of_sync]
    /\ clientFrame

UpdateInsert ==
    \E index \in 0 .. MaxLen, tracks \in TrackVecs, nsi \in IndexVecs :
        /\ Len(client.track_list) + Len(tracks) <= MaxLen
        /\ Update(TrackListUpdate("Insert", index, tracks, << >>, nsi))

UpdateRemove ==
    \E removed \in IndexVecs, nsi \in IndexVecs :
        Update(TrackListUpdate("Remove", 0, << >>, removed, nsi))

\* the snapshot of a Replace is a TrackList of the server: its vectors have
\* one length
UpdateReplace ==
    \E tracks \in TrackVecs, nsi \in IndexVecs :
        /\ Len(tracks) = Len(nsi)
        /\ Update(TrackListUpdate("Replace", 0, tracks, << >>, nsi))

UpdateClear == Update(TrackListUpdate("Clear", 0, << >>, << >>, << >>))

UpdateShuffle == \E nsi \in IndexVecs : Update(TrackListUpdate("Shuffle", 0, << >>, << >>, nsi))

\* TrackList::sync
Sync ==
    /\ ClientRuns
    /\ \E tracks \in TrackVecs, nsi \in IndexVecs :
          /\ Len(tracks) = Len(nsi)
          /\ client' = sync(client, tracks, nsi).client
    /\ applied' = [kind |-> "Sync", res |-> "Ok", removed |-> << >>,
                    before |-> [track_list |-> client.track_list,
                                shuffle_indicies |-> client.shuffle_indicies],
                    out_of_sync |-> FALSE]
    /\ clientFrame

(* A client that applies the updates it receives, built with or without
   debug assertions. *)
InitUpdates ==
    /\ InitServer(0)
    /\ fs = NoFs /\ paths = << >> /\ loaded = NoLoaded
    /\ client = NewTrackList /\ applied = NoUpdate
    /\ debug_assertions \in BOOLEAN

NextUpdates ==
    \/ UpdateInsert
    \/ UpdateRemove
    \/ UpdateReplace
    \/ UpdateClear
    \/ UpdateShuffle
    \/ Sync

SpecUpdates == InitUpdates /\ [][NextUpdates]_vars

(* The player under every loop mode: a short track is played to its end,
   looped and sought, while the run loop takes the source events. *)
NextLoop ==
    \/ \E ts \in ShortTracks : ReqInsert(End, ts, PMaxLen)
    \/ ReqPlay
    \/ \E m \in LoopModes : ReqSetLoopMode(m)
    \/ ReqSeek(SeekTo(0))
    \/ \E p \in Procs : SeekSet(p) \/ SeekReplied(p)
    \/ Background

SpecLoop == Init /\ [][NextLoop]_vars

(* The player with insertions behind the playing track: single tracks are
   appended or put at position 1 of a list of up to PMaxLen + 1 tracks. *)
SingleTracks == {<<t>> : t \in Tracks}

NextStale ==
    \/ \E p \in {End, Absolute(1)}, ts \in SingleTracks : ReqInsert(p, ts, PMaxLen + 1)
    \/ ReqPlay
    \/ Background

SpecStale == Init /\ [][NextStale]_vars

(* The player with a replacement of the list by the tracks of a request none
   of whose paths could be loaded. *)
NoTracks == {<< >>}

NextReplaceEmpty ==
    \/ \E ts \in ShortTracks : ReqInsert(End, ts, PMaxLen)
    \/ \E ts \in NoTracks : ReqInsert(Replace, ts, PMaxLen)
    \/ ReqPlay
    \/ Background

SpecReplaceEmpty == Init /\ [][NextReplaceEmpty]_vars

(* The player with a list of two tracks that is played through and stopped:
   the second track is queued while the first plays. *)
NextPreload ==
    \/ \E ts \in TwoTracks : ReqInsert(End, ts, PMaxLen)
    \/ ReqPlay
    \/ ReqStop
    \/ Background

SpecPreload == Init /\ [][NextPreload]_vars

(* The player with clear_tracks from every playback state and index. *)
NextClear ==
    \/ \E ts \in ShortTracks : ReqInsert(End, ts, PMaxLen)
    \/ ReqPlay
    \/ ReqPause
    \/ ReqNext
    \/ ReqClear
    \/ Background

SpecClear == Init /\ [][NextClear]_vars

(* The track list under insertions into a list that has been shuffled and
   unshuffled: lists of up to MaxLen + 1 tracks, the index moved only by
   the insertions. *)
SplicePositions == {Absolute(1), Relative(1), Start, End, Replace}

NextSplice ==
    \/ \E p \in SplicePositions, ts \in NewTracks : ReqInsert(p, ts, MaxLen + 1)
    \/ \E b \in BOOLEAN : ReqSetShuffle(b)
    \/ ReqReply
    \/ ForwardEvent

SpecSplice == Init /\ [][NextSplice]_vars

(* The player with a listener and a seek to a position past the end of every
   track. *)
MaxDuration == total_duration(NumTracks)
FarSeek == SeekTo(MaxDuration + 1)

NextSeekClamp ==
    \/ \E ts \in ShortTracks : ReqInsert(End, ts, PMaxLen)
    \/ ReqPlay
    \/ ReqSeek(FarSeek)
    \/ \E p \in Procs : SeekSet(p) \/ SeekReplied(p)
    \/ Background

SpecSeekClamp == InitListening /\ [][NextSeekClamp]_vars

(* The player with a listener and set_volume, while a short track plays:
   volumes below 0, within [0, 1], above 1, and NaN, which an MPRIS client
   can send. *)
Volumes == {F32(v) : v \in -1 .. VolumeSteps + 1} \cup {NaN}

NextVolume ==
    \/ \E ts \in ShortTracks : ReqInsert(End, ts, PMaxLen)
    \/ ReqPlay
    \/ \E v \in Volumes : ReqSetVolume(v)
    \/ SetVolumeLock("req")
    \/ SetVolume("req")
    \/ Background

SpecVolume == InitListening /\ [][NextVolume]_vars

(* The server with its IPC server and a listener: SetVolume requests arrive
   as messages. *)
NextMessages ==
    \/ \E v \in Volumes : StreamSetVolume(v)
    \/ StreamReply
    \/ RecvSetVolume
    \/ SetVolume("req")
    \/ ReqReply
    \/ ForwardEvent

SpecMessages == InitListening /\ [][NextMessages]_vars

(* The server with MaxSubs listeners, of which some drop their receiver,
   while the loop mode is set again and again. *)
NextBus ==
    \/ \E m \in LoopModes : ReqSetLoopMode(m)
    \/ ReqReply
    \/ ForwardEvent
    \/ RegisterEventListener
    \/ \E id \in Subs : CloseReceiver(id)

SpecBus == InitBus /\ [][NextBus]_vars

(* ----------------------- properties of the track list ------------------- *)
\* C4: after every sequence of insert (any position), clear and set_shuffle
\* operations, track_list and the shuffle indices have the same length and
\* the shuffle indices are a permutation of 0 .. len-1
C4_ShuffleIsPermutation ==
    /\ Len(track_list) = Len(shuffled_track_indicies)
    /\ IsPermutation(shuffled_track_indicies)

\* a track has been inserted in front of the MaxLen tracks of a list whose
\* shuffled order was not the identity: every index of the old order has been
\* bumped, and the order of the longer list is not the identity either
C4_InsertedIntoShuffled ==
    /\ ctl["req"].pc = "done" /\ ctl["req"].op = "insert"
    /\ shuffle_enabled
    /\ Len(ctl["req"].tracks) > 0
    /\ Len(track_list) = MaxLen + Len(ctl["req"].tracks)
    /\ ctl["req"].at = 0
    /\ shuffled_track_indicies # Range(0, Len(track_list))

\* C5: current_index < max(len(track_list), 1) in every reachable state
C5_IndexInRange == current_track_index < Max(Len(track_list), 1)

\* previous_track has wrapped the index of an empty list to usize::MAX
C5_IndexWrappedOnEmptyList ==
    /\ ~panicked
    /\ ctl["req"].pc = "done" /\ ctl["req"].op = "prev"
    /\ Len(track_list) = 0
    /\ current_track_index = USIZE_MOD - 1

\* the step in which an insertion other than Replace is carried out
InsertStep ==
    /\ ctl["req"].pc = "idle"
    /\ ctl'["req"].pc = "done" /\ ctl'["req"].op = "insert"

\* the index an insertion of n tracks at j is said to leave
ShiftedIndex(j, n) ==
    IF j <= current_track_index THEN current_track_index + n ELSE current_track_index

\* C6, as amended: an insertion other than Replace into a list with a valid
\* current index keeps the current track (shuffle on or off), and with shuffle
\* off the new index is current_index + len(new_tracks) when the insertion
\* index j <= current_index and current_index otherwise; an insertion into
\* an empty list leaves the index 0
C6_InsertKeepsCurrent ==
    [][ InsertStep =>
          /\ current_track_index < Len(track_list) =>
               /\ TrackListInner_index(track_list', shuffled_track_indicies',
                                       current_track_index')
                    = TrackListInner_index(track_list, shuffled_track_indicies,
                                           current_track_index)
               /\ ~shuffle_enabled =>
                    current_track_index'
                      = ShiftedIndex(ctl'["req"].at, Len(track_list') - Len(track_list))
          /\ (Len(track_list) = 0 /\ current_track_index = 0) => current_track_index' = 0
      ]_vars

\* a track has been inserted into a list of MaxLen tracks in a shuffled order
\* that was not the identity, at an index strictly below the current index,
\* which the insertion has moved up by the number of tracks inserted
C6_InsertedBeforeCurrent ==
    /\ ctl["req"].pc = "done" /\ ctl["req"].op = "insert"
    /\ shuffle_enabled
    /\ Len(ctl["req"].tracks) > 0
    /\ Len(track_list) = MaxLen + Len(ctl["req"].tracks)
    /\ ctl["req"].at < current_track_index - Len(ctl["req"].tracks)
    /\ current_track_index < Len(track_list)
    /\ shuffled_track_indicies # Range(0, Len(track_list))

\* C6, as stated: the index rule also for the valid index 0 of an empty list
C6_InsertShiftsIndex ==
    [][ (InsertStep /\ ~shuffle_enabled /\ current_track_index < Max(Len(track_list), 1)) =>
          current_track_index'
            = ShiftedIndex(ctl'["req"].at, Len(track_list') - Len(track_list))
      ]_vars

\* C7: turning shuffle on leaves current index 0 with the underlying index of
\* the track that was current at position 0; turning it off resets the
\* shuffle indices to the identity and leaves that underlying index
C7_ShuffleKeepsCurrent ==
    [][ ( /\ ctl["req"].pc = "idle"
          /\ ctl'["req"].pc = "done" /\ ctl'["req"].op = "set_shuffle"
          /\ shuffle_enabled' # shuffle_enabled
          /\ current_track_index < Len(track_list) ) =>
          LET u == shuffled_track_indicies[current_track_index + 1]
          IN  IF shuffle_enabled'
              THEN current_track_index' = 0 /\ shuffled_track_indicies'[1] = u
              ELSE /\ shuffled_track_indicies' = Range(0, Len(track_list))
                   /\ current_track_index' = u
      ]_vars

\* shuffle has been turned off and the shuffle indices are not the identity
C7_ShuffledAfterOff ==
    /\ ctl["req"].pc = "done" /\ ctl["req"].op = "set_shuffle"
    /\ ~shuffle_enabled
    /\ shuffled_track_indicies # Range(0, Len(track_list))

(* ------------------------- properties of the player --------------------- *)
\* nothing is in progress: both tasks wait, the audio thread pulls the
\* filler, no skip is pending and no event is undelivered
AtRest ==
    /\ ~panicked
    /\ \A p \in Procs : ctl[p].pc = "idle"
    /\ apc \in {"load", "consume"} /\ source_queue.st = "None"
    /\ to_skip = 0 /\ source_chan = << >>

\* C1: in every reachable state, the states between the steps of stop, play,
\* next_track and a read-back included, Stopped implies that the source queue
\* is None and that the shared position is zero
C1_StoppedIsEmptyAtZero ==
    playback_state = "Stopped" => (source_queue.st = "None" /\ position = 0)

\* the player is Stopped and at rest with a position that is not zero
C1_StoppedAtRestWithPosition ==
    AtRest /\ playback_state = "Stopped" /\ position > 0

\* C2: whenever the player is Playing with the source queue None, it
\* eventually arms a source or becomes Stopped
C2_PlayingGetsSourceOrStops ==
    (playback_state = "Playing" /\ source_queue.st = "None")
      ~> (source_queue.st # "None" \/ playback_state = "Stopped")

\* the player is Playing and at rest with no source
C2_PlayingAtRestWithoutSource ==
    AtRest /\ playback_state = "Playing"

\* the run loop receives Finished while the preload of the track after the
\* current one is in the slot or has just been taken over by the output
FinishedWithPreload ==
    /\ CanRun("run") /\ ctl["run"].pc = "idle" /\ ctl["req"].pc = "idle"
    /\ source_chan # << >> /\ Head(source_chan).kind = "Finished"
    /\ source_chan' = Tail(source_chan)
    /\ playback_state = "Playing"
    /\ LET q == get_tracks_to_queue(track_list, shuffled_track_indicies, current_track_index)
       IN  /\ q.some /\ q.next # NoTrack
           /\ \/ source_queue = SQQueued(q.next)
              \/ source_queue.st = "Playing" /\ current.track = q.next
                 /\ apc \notin {"clear", "clear_slot"}

\* C3: when the current track ends naturally while the next source is
\* preloaded, handling Finished asks for no skip and moves the index on by
\* exactly one, whether the output has already loaded the preload or not
C3_PreloadPlaysNext ==
    [][ FinishedWithPreload =>
          (to_skip' = to_skip /\ current_track_index' = current_track_index + 1) ]_vars

\* a preloaded source has been taken over by the output with a skip pending
C3_PreloadAboutToBeSkipped ==
    /\ ctl["req"].pc = "idle"
    /\ playback_state = "Playing"
    /\ apc = "readback" /\ current.pos = 0 /\ to_skip > 0
    /\ current_track_index < Len(track_list)
    /\ current.track = TrackListInner_index(track_list, shuffled_track_indicies,
                                            current_track_index)

\* C8: insert_tracks(Replace, new_tracks) while not Stopped replaces the list
\* and sets the index to 0, asks for the end of the source in the slot once
\* it holds the lock of source_queue, and when it returns the index is 0, the new head has been armed and the
\* playback state is the one it started in
C8_ReplaceArmsHead ==
    [][ /\ ( /\ ctl["req"].pc = "idle" /\ ctl'["req"].op = "replace"
             /\ playback_state # "Stopped" ) =>
             /\ track_list' \in PNewTracks
             /\ shuffled_track_indicies' = Range(0, Len(track_list'))
             /\ current_track_index' = 0
        /\ ( /\ ctl["req"].pc \in {"idle", "lock_queue"}
             /\ ctl'["req"].pc \notin {"idle", "lock_queue"}
             /\ ctl'["req"].op = "replace" /\ ctl'["req"].pre # "Stopped"
             /\ Len(track_list') > 0 /\ source_queue.st # "None" ) =>
             to_skip' = to_skip + 1
        /\ ( /\ ctl["req"].pc # "done" /\ ctl["req"].op = "replace"
             /\ ctl'["req"].pc = "done" /\ ctl'["req"].res = "Ok"
             /\ ctl'["req"].pre # "Stopped" ) =>
             /\ current_track_index' = 0
             /\ playback_state' = ctl'["req"].pre
             /\ ctl'["req"].armed = track_list'[1]
      ]_vars

\* a replacement that started while Playing has returned and the player is
\* Stopped with the new head armed
C8_ReplaceEndsStopped ==
    /\ ctl["req"].pc = "done" /\ ctl["req"].op = "replace" /\ ctl["req"].res = "Ok"
    /\ ctl["req"].pre = "Playing"
    /\ playback_state = "Stopped"
    /\ ctl["req"].armed = track_list[1]

\* C10: next_track issued while not Stopped at the last position leaves the
\* index 0, and the player Stopped under Loop Mode None, Playing with the
\* first track armed under Loop Mode Playlist
C10_NextWrapsAtEnd ==
    ( /\ ctl["req"].pc = "done" /\ ctl["req"].op = "next" /\ ctl["req"].res = "Ok"
      /\ ctl["req"].wrapped /\ ctl["req"].pre # "Stopped" ) =>
      /\ current_track_index = 0
      /\ loop_mode = "None" => playback_state = "Stopped"
      /\ loop_mode = "Playlist" =>
           (playback_state = "Playing" /\ ctl["req"].armed = track_list[1])

\* next_track at the last position under Loop Mode Playlist has returned with
\* the index moved on by the run loop
C10_NextEndsPastFirst ==
    /\ ctl["req"].pc = "done" /\ ctl["req"].op = "next" /\ ctl["req"].res = "Ok"
    /\ ctl["req"].wrapped /\ ctl["req"].pre = "Playing"
    /\ loop_mode = "Playlist"
    /\ current_track_index # 0

\* C9: every seek issued while the source queue is not None eventually
\* receives its reply
C9_SeekGetsReply ==
    (ctl["req"].pc = "seek_wait") ~> (ctl["req"].pc # "seek_wait")

\* a seek waits for its reply while nothing is left to play
C9_SeekWaitsAtRest ==
    /\ ctl["req"].pc = "seek_wait" /\ ctl["run"].pc = "idle"
    /\ seek_position # NoSeek /\ seek_reply = "None"
    /\ apc \in {"load", "consume"} /\ source_queue.st = "None"
    /\ to_skip = 0 /\ source_chan = << >>

\* what previous_track(soft = true) above the threshold must leave alone
restartFrame == << current_track_index, source_queue, to_skip, playback_state >>

\* previous_track(soft = true) reads the position: in the step that starts
\* it, or in the step that gets the lock of the position it had to wait for
C11_ReadsPosition ==
    \/ /\ ctl["req"].pc = "idle" /\ ctl'["req"].arg.kind = "Soft"
       /\ ctl'["req"].pc # "lock_position"
    \/ ctl["req"].pc = "lock_position" /\ ctl'["req"].pc # "lock_position"

\* C11: previous_track(soft = true) called while the position is above
\* RESTART_THRESHOLD issues seek(To(0)): it writes the pending seek To(0) if
\* the source queue is not None, and none of its steps changes the current
\* index, the source queue, the skip counter or the playback state
C11_SoftPreviousRestarts ==
    [][ /\ ( C11_ReadsPosition /\ position > RESTART_THRESHOLD ) =>
             /\ UNCHANGED restartFrame
             /\ ctl'["req"].op = "restart"
             /\ \/ ctl'["req"].pc = "lock_seek"
                \/ ctl'["req"].pc = (IF source_queue.st = "None" THEN "done" ELSE "seek_set")
             /\ ctl'["req"].pc # "done" => ctl'["req"].seek = SeekTo(0)
        /\ ( /\ ctl["req"].op = "restart" /\ ctl'["req"] # ctl["req"] ) =>
             /\ UNCHANGED restartFrame
             /\ ( /\ ctl["req"].pc = "lock_seek" /\ ctl'["req"].pc # "lock_seek" ) =>
                  ctl'["req"].pc = (IF source_queue.st = "None" THEN "done" ELSE "seek_set")
             /\ ( /\ ctl["req"].pc = "seek_set" /\ ctl'["req"].pc # "seek_set" ) =>
                  seek_position' = SeekTo(0)
      ]_vars

\* previous_track(soft = true) above the threshold has written its seek to 0
\* and waits for the reply
C11_RestartSeekPending ==
    /\ ctl["req"].op = "restart" /\ ctl["req"].pc = "seek_wait"
    /\ seek_position = SeekTo(0)
    /\ position > RESTART_THRESHOLD

\* everything but the locals of the control-plane tasks
playerVars == << track_list, shuffled_track_indicies, shuffle_enabled, current_track_index,
                 playback_state, loop_mode, to_skip, position, seek_position, seek_reply,
                 volume, source_queue, current, apc, source_chan, event_chan, listeners,
                 delivered, locked, broadcast_tx, closed, received, message_chan,
                 response, libVars, panicked >>

\* C12: pause takes Playing to Paused and emits PlaybackStateChanged(Paused);
\* called while Stopped or Paused it changes nothing and emits no event; a
\* play that starts in Paused returns with the player Playing
C12_PauseOnlyFromPlaying ==
    [][ /\ ( /\ ctl["req"].pc = "idle" /\ ctl'["req"].op = "pause" ) =>
             IF playback_state = "Playing"
             THEN /\ playback_state' = "Paused"
                  /\ event_chan' = Append(event_chan, PlaybackStateChanged("Paused"))
             ELSE UNCHANGED playerVars
        /\ ( /\ ctl["req"].pc # "done" /\ ctl'["req"].pc = "done"
             /\ ctl'["req"].op = "play" /\ ctl'["req"].pre = "Paused" ) =>
             (playback_state' = "Playing" /\ ctl'["req"].res = "Ok")
      ]_vars

\* a play that started in Paused, after a pause of a playing track, has
\* returned
C12_ResumedAfterPause ==
    /\ ctl["req"].pc = "done" /\ ctl["req"].op = "play" /\ ctl["req"].pre = "Paused"
    /\ playback_state = "Playing"
    /\ source_queue.st = "Playing" /\ current.track # NoTrack

\* the output holds a source that has not ended
LiveSource == apc \notin {"load", "consume", "clear", "clear_slot"} /\ current.track # NoTrack

\* track t is what the output plays or will play next: the request put it
\* into the slot, or the output holds it with no skip pending, or it waits in
\* the slot and the pending skips are the ones that end the source before it
TrackArmed(t) ==
    \/ ctl["req"].armed = t
    \/ LiveSource /\ current.track = t /\ source_queue.st # "None" /\ to_skip = 0
    \/ source_queue = SQQueued(t) /\ to_skip = (IF LiveSource THEN 1 ELSE 0)

\* C13: play from Stopped with an empty track list returns Ok and leaves the
\* player Stopped, the source queue None and no event emitted; with a
\* non-empty list a play from Stopped that returns Ok has armed the track at
\* the current index, set the playback state to Playing and emitted
\* PlaybackStateChanged(Playing) exactly once
C13_PlayFromStoppedArms ==
    [][ /\ ( /\ ctl["req"].pc = "idle" /\ ctl'["req"].op = "play"
             /\ playback_state = "Stopped" /\ Len(track_list) = 0 ) =>
             /\ ctl'["req"].pc = "done" /\ ctl'["req"].res = "Ok"
             /\ playback_state' = "Stopped" /\ source_queue'.st = "None"
             /\ event_chan' = event_chan
        /\ ( /\ ctl["req"].pc # "done" /\ ctl'["req"].pc = "done"
             /\ ctl'["req"].op = "play" /\ ctl'["req"].pre = "Stopped"
             /\ ctl'["req"].res = "Ok" /\ Len(track_list) > 0 ) =>
             /\ current_track_index' < Len(track_list')
             /\ TrackArmed(TrackListInner_index(track_list, shuffled_track_indicies,
                                                current_track_index))'
             /\ playback_state' = "Playing"
             /\ ctl'["req"].emitted = 1
             /\ event_chan' = Append(event_chan, PlaybackStateChanged("Playing"))
      ]_vars

\* a play that started in Stopped has returned Ok: the player is Playing,
\* the request armed nothing, and the source of the current track, which the
\* output holds, is about to be skipped
C13_PlayingWithNothingArmed ==
    /\ ctl["req"].pc = "done" /\ ctl["req"].op = "play" /\ ctl["req"].res = "Ok"
    /\ ctl["req"].pre = "Stopped" /\ ctl["req"].emitted = 1
    /\ Len(track_list) > 0 /\ current_track_index = 0
    /\ playback_state = "Playing"
    /\ ctl["req"].armed = NoTrack
    /\ LiveSource /\ to_skip = 1
    /\ current.track = TrackListInner_index(track_list, shuffled_track_indicies, 0)

\* C14: when clear_tracks returns, whatever state it started in, the track
\* list is empty, the current index is 0 and the playback state is Stopped
C14_ClearEmptiesList ==
    (ctl["req"].pc = "done" /\ ctl["req"].op = "clear") =>
      /\ ctl["req"].res = "Ok"
      /\ Len(track_list) = 0 /\ Len(shuffled_track_indicies) = 0
      /\ current_track_index = 0
      /\ playback_state = "Stopped"

\* clear_tracks has returned; it started while a track played at an index
\* other than 0
C14_ClearedWhilePlaying ==
    /\ ctl["req"].pc = "done" /\ ctl["req"].op = "clear"
    /\ ctl["req"].pre = "Playing" /\ ctl["req"].arg.n > 0
    /\ ctl["req"].emitted = 1
    /\ Len(track_list) = 0

\* the step in which an insertion, Replace included, is carried out on a
\* Stopped player
SpliceStep ==
    /\ ctl["req"].pc = "idle"
    /\ ctl'["req"].pc = "done" /\ ctl'["req"].op \in {"insert", "replace"}

\* the list `base` with `tracks` spliced in at j
Spliced(base, j, tracks) == SubSeq(base, 1, j) \o tracks \o SubSeq(base, j + 1, Len(base))

\* C15: an insertion puts the new tracks, contiguous and in the given order,
\* at the insertion index j of track_list and keeps the order of the tracks
\* already there (an empty or replaced list becomes exactly the new tracks);
\* with shuffle off it leaves the shuffle indices equal to the identity
C15_InsertSplices ==
    [][ SpliceStep =>
          LET base == IF ctl'["req"].op = "replace" THEN << >> ELSE track_list
          IN  /\ track_list' = Spliced(base, ctl'["req"].at, ctl'["req"].tracks)
              /\ ~shuffle_enabled =>
                   shuffled_track_indicies' = Range(0, Len(track_list'))
      ]_vars

\* tracks have been appended to a list with shuffle off, and the shuffle
\* indices are not the identity
C15_InsertedShuffleOffNotIdentity ==
    /\ ctl["req"].pc = "done" /\ ctl["req"].op = "insert"
    /\ ctl["req"].arg = End /\ Len(ctl["req"].tracks) = 1
    /\ ~shuffle_enabled
    /\ Len(track_list) = MaxLen + 1
    /\ ctl["req"].at = MaxLen
    /\ track_list = Spliced(SubSeq(track_list, 1, MaxLen), MaxLen, ctl["req"].tracks)
    /\ shuffled_track_indicies # Range(0, Len(track_list))

\* C16: the insertion index resolved from a position, whatever the current
\* index and the length len of the list, is within 0 .. len: Absolute(i)
\* gives i clamped to len, Start gives 0, End gives len, and Relative(1), the
\* next position, gives on an empty list the index End gives
C16_InsertIndexInRange ==
    [][ SpliceStep =>
          LET len == Len(track_list)
              p == ctl'["req"].arg
              j == ctl'["req"].at
          IN  /\ j \in 0 .. len
              /\ p.kind = "Absolute" => j = Min(p.n, len)
              /\ p.kind = "Start" => j = 0
              /\ p.kind = "End" => j = len
              /\ (p = Relative(1) /\ len = 0) => j = len
      ]_vars

\* tracks have been inserted at an absolute position past the end of a list
\* that was not empty
C16_InsertedPastEnd ==
    /\ ctl["req"].pc = "done" /\ ctl["req"].op = "insert"
    /\ ctl["req"].arg = Absolute(MaxLen + 1)
    /\ Len(ctl["req"].tracks) > 0
    /\ ctl["req"].at > 0
    /\ ctl["req"].at = Len(track_list) - Len(ctl["req"].tracks)

\* the audio thread takes a pending seek To(p) with p past the total duration
\* of the source, and the seek succeeds
SeekPastEnd ==
    /\ seek_position.kind = "To" /\ seek_position' = NoSeek /\ seek_reply' = "Ok"
    /\ current.track # NoTrack /\ playback_state = "Playing"
    /\ seek_position.d > total_duration(current.track)

\* C17: after a seek To(p) on a playing track of total duration d with
\* p > d the target is clamped to d: the position that the Seeked event
\* carries is d, from the source to the listeners, and so is the position
\* that the same read-back stores for QueryPosition
C17_SeekClampsToDuration ==
    [][ /\ SeekPastEnd =>
             source_chan'[Len(source_chan')] = Ev("Seeked", total_duration(current.track))
        /\ ( /\ apc = "store_position" /\ apc' = "next"
             /\ ctl["req"].pc = "seek_wait" /\ seek_reply = "Ok"
             /\ ctl["req"].seek.kind = "To"
             /\ ctl["req"].seek.d > total_duration(current.track) ) =>
             position' = total_duration(current.track)
        /\ \A k \in 1 .. Len(event_chan') :
             event_chan'[k].kind = "Seeked" => event_chan'[k].n <= MaxDuration
      ]_vars

\* a Seeked event with a position past the end of every track has been
\* delivered to the listeners while the stored position is past the end too
C17_SeekedPastEndDelivered ==
    /\ delivered.ev = Seeked(FarSeek.d)
    /\ position = FarSeek.d
    /\ current.track # NoTrack /\ current.pos = total_duration(current.track)
    /\ playback_state = "Playing"

\* the volume v clamped to [0, 1]
ClampedVolume(v) == F32(Max(0, Min(v, VolumeSteps)))

\* C18: after set_volume(v) the stored volume is clamp(v, 0, 1), so the
\* volume is within [0, 1] in every reachable state, and
\* VolumeChanged(clamp(v, 0, 1)) is emitted if and only if that value differs
\* from the previous volume
C18_VolumeClamped ==
    [][ ( /\ ctl["req"].pc = "volume_locked" /\ ctl'["req"].pc = "done" ) =>
          /\ ~volume'.nan /\ volume'.v \in 0 .. VolumeSteps
          /\ ctl["req"].arg.kind = "Volume" => volume' = ClampedVolume(ctl["req"].arg.n)
          /\ event_chan' = IF volume' # volume
                           THEN Append(event_chan, VolumeChanged(volume'))
                           ELSE event_chan
      ]_vars

\* set_volume(NaN) has returned for the second time: the stored volume is
\* NaN, and VolumeChanged(NaN) has been emitted again after the one that
\* was delivered
C18_VolumeIsNaN ==
    /\ ctl["req"].pc = "done" /\ ctl["req"].op = "set_volume"
    /\ ctl["req"].arg.kind = "NaN" /\ ctl["req"].emitted = 1
    /\ volume = NaN
    /\ delivered.ev = VolumeChanged(NaN)
    /\ event_chan = << VolumeChanged(NaN) >>

\* C19: the audio thread never waits for a lock that a control-plane
\* operation holds: whenever it is about to take a mutex of the controls,
\* lock_blocking returns at once
C19_AudioThreadNeverWaits ==
    ( /\ apc \in {"load", "volume", "seek", "position", "clear"}
      /\ ~panicked ) => ENABLED LockBlocking

\* the audio thread is about to read the volume of a playing source back
\* while set_volume holds the mutex of the volume
C19_ReadBackWaitsForVolume ==
    /\ apc = "volume" /\ ~panicked
    /\ current.track # NoTrack /\ playback_state = "Playing"
    /\ ctl["req"].pc = "volume_locked" /\ "volume" \in locked
    /\ ~ ENABLED LockBlocking

\* C20: for every PlaybackStateChanged(s) that is emitted, the playback
\* state at the instant the forwarder delivers the event to the listeners
\* is s, however the operations of the player and the forwarder interleave
C20_NoStaleEvents ==
    delivered.ev.kind = "PlaybackStateChanged" => delivered.state = delivered.ev.s

\* PlaybackStateChanged(Playing) has been delivered while the player was
\* Paused already, with PlaybackStateChanged(Paused) still to be delivered
C20_StaleEventDelivered ==
    /\ delivered.ev = PlaybackStateChanged("Playing")
    /\ delivered.state = "Paused"
    /\ event_chan = << PlaybackStateChanged("Paused") >>
    /\ playback_state = "Paused"

\* C21: when the response to a state-changing request (SetVolume) is
\* delivered to its caller, the player has already applied the request and
\* published the change event; a response is never delivered before its
\* request was processed
C21_ResponseAfterProcessing ==
    response.kind = "SetVolume" =>
      /\ response.queued = 0
      /\ response.volume = Player_set_volume(response.v)

\* the reply to a SetVolume that changes the volume was written with the
\* message still in the channel; the request has been processed since and
\* its VolumeChanged delivered
C21_RepliedBeforeProcessed ==
    /\ response.kind = "SetVolume" /\ response.queued = 1
    /\ response.volume # Player_set_volume(response.v)
    /\ message_chan = << >> /\ ctl["req"].pc = "idle"
    /\ volume = Player_set_volume(response.v)
    /\ delivered.ev = VolumeChanged(volume)

\* C22: each event published is delivered, in the order of publication, to
\* every listener that registered before and whose receiver is still open: a
\* broadcast takes the oldest undelivered event and sends it to each of them;
\* a listener whose receiver is closed is removed from the list by the next
\* broadcast and does not keep the event from the others; an open listener
\* stays registered
C22_BroadcastToOpenListeners ==
    [][ /\ ( /\ event_chan # << >> /\ event_chan' = Tail(event_chan) ) =>
             /\ \A id \in Elems(broadcast_tx) \ closed : received'[id] = Head(event_chan)
             /\ \A id \in Subs \ Elems(broadcast_tx) : received'[id] = received[id]
             /\ \A id \in closed : /\ id \notin Elems(broadcast_tx')
                                    /\ received'[id] = received[id]
        /\ \A id \in Elems(broadcast_tx) \ closed' : id \in Elems(broadcast_tx')
        /\ \A k \in 1 .. Len(event_chan) :
             k <= Len(event_chan') => event_chan'[k] = event_chan[k]
             \/ event_chan' = Tail(event_chan)
      ]_vars

\* the first listener has dropped its receiver and been removed; the events
\* published since have reached the second one
C22_DeliveredPastClosedListener ==
    /\ 1 \in closed /\ broadcast_tx = << 2 >>
    /\ received[1] = LoopModeChanged("Track")
    /\ received[2] = LoopModeChanged("Playlist")
    /\ event_chan = << >>

\* C23: an insert_tracks(Replace, new_tracks) that started while Playing and
\* returned Ok has emitted exactly one event, and that event is a
\* CurrentTrackChanged, in the Event channel or with the listener
C23_ReplaceEmitsCurrentTrackChanged ==
    ( /\ ctl["req"].pc = "done" /\ ctl["req"].op = "replace" /\ ctl["req"].res = "Ok"
      /\ ctl["req"].pre = "Playing" ) =>
      /\ ctl["req"].emitted = 1
      /\ \E ev \in Elems(event_chan) \cup {delivered.ev} : ev.kind = "CurrentTrackChanged"

\* a replacement that started while Playing has returned with the new head
\* armed and the player Playing, and the only event ever emitted is the
\* PlaybackStateChanged(Playing) of the play that preceded it
C23_ReplacedWithoutEvent ==
    /\ ctl["req"].pc = "done" /\ ctl["req"].op = "replace" /\ ctl["req"].res = "Ok"
    /\ ctl["req"].pre = "Playing" /\ playback_state = "Playing"
    /\ ctl["req"].armed = track_list[1]
    /\ ctl["req"].emitted = 0
    /\ event_chan = << >>
    /\ delivered.ev = PlaybackStateChanged("Playing")

\* the Tracks that some holder still keeps alive
LiveArcs == {a \in 1 .. Len(arcs) : arcs[a].strong > 0}

\* C24: no two live Tracks have the same canonical path, whatever calls of
\* get_or_load_track are in progress, and a call for a path whose Track is
\* live returns that Track and builds none
C24_OneLiveTrackPerPath ==
    /\ \A a, b \in LiveArcs : arcs[a].path = arcs[b].path => a = b
    /\ \A c \in Loads : loader[c].pc = "done" =>
          /\ loader[c].track \in LiveArcs
          /\ arcs[loader[c].track].path = loader[c].path

\* two calls for one path have both returned, each with a Track of its own,
\* and both Tracks are held
C24_TwoTracksOfOnePath ==
    /\ loader[1].pc = "done" /\ loader[2].pc = "done"
    /\ loader[1].path = loader[2].path
    /\ loader[1].track # loader[2].track
    /\ {loader[1].track, loader[2].track} \subseteq LiveArcs

\* a call found the Track of its path alive and returned it: two holders
\* share the one Track built
C24_TrackReused ==
    /\ loader[1].pc = "done" /\ loader[2].pc = "done"
    /\ loader[1].track = loader[2].track
    /\ arcs[loader[1].track].strong = 2 /\ Len(arcs) = 1

\* the directories of the request list no directory
FlatRequest ==
    \A k \in 1 .. Len(paths) : paths[k] \in Dirs =>
        \A i \in 1 .. Len(fs.dir[paths[k]].entries) : fs.dir[paths[k]].entries[i] \notin Dirs

\* the entries of the readable directories of the request, each named by
\* its place in the request and in the listing
RequestedEntries ==
    {ki \in (1 .. Len(paths)) \X (1 .. MaxEntries) :
        /\ paths[ki[1]] \in Dirs /\ fs.dir[paths[ki[1]]].state = "Readable"
        /\ ki[2] <= Len(fs.dir[paths[ki[1]]].entries)}
EntryAt(ki) == fs.dir[paths[ki[1]]].entries[ki[2]]

\* the paths and entries of the request that are audio files, and those
\* that fail: a path that does not exist, a file that is no audio, a
\* directory that cannot be read, an entry whose read failed
GoodPaths == {k \in 1 .. Len(paths) : paths[k] \in Paths /\ fs.status[paths[k]] = "Ok"}
GoodEntries == {ki \in RequestedEntries :
                  EntryAt(ki) \in Paths /\ fs.status[EntryAt(ki)] = "Ok"}
FailedPaths == {k \in 1 .. Len(paths) :
                  IF paths[k] \in Dirs THEN fs.dir[paths[k]].state # "Readable"
                  ELSE fs.status[paths[k]] # "Ok"}
FailedEntries == RequestedEntries \ GoodEntries

\* C25: get_or_load_tracks returns one Track for every path of the request
\* and every entry of a directory of the request that is an audio file, and
\* one error for every path and entry that fails, whatever failed before
C25_EveryPathProcessed ==
    (loaded.pc = "returned" /\ FlatRequest) =>
      /\ Len(loaded.errors) = Cardinality(FailedPaths) + Cardinality(FailedEntries)
      /\ \A path \in Paths :
            Cardinality({k \in 1 .. Len(loaded.tracks) : loaded.tracks[k].path = path})
              = Cardinality({k \in GoodPaths : paths[k] = path})
                + Cardinality({ki \in GoodEntries : EntryAt(ki) = path})

\* the directory lists an entry whose read failed and then an audio file:
\* the error is returned, and the file was not loaded
C25_EntryAfterFailureSkipped ==
    /\ loaded.by = "track_cache.rs" /\ loaded.pc = "returned"
    /\ paths = << Dir >> /\ fs.dir[Dir] = [state |-> "Readable", entries |-> << IoErr, 1 >>]
    /\ fs.status[1] = "Ok"
    /\ loaded.tracks = << >>
    /\ loaded.errors = << LoadError(Dir, "ReadDirFailed") >>

\* a track number before another, a track without one after those with one
NumberLessNoneLast(x, y) == IF x.some /\ y.some THEN x.v < y.v ELSE x.some /\ ~y.some

\* track a comes before track b: by album, then by track number with the
\* tracks without one last, then by title or file stem
ComesBefore(a, b) ==
    \/ AlbumLess(a, b)
    \/ /\ a.meta.album = b.meta.album
       /\ \/ NumberLessNoneLast(a.meta.track_number, b.meta.track_number)
          \/ /\ a.meta.track_number = b.meta.track_number
             /\ TitleLess(a, b)

\* C26: the tracks of one directory are returned by album, then by track
\* number with the tracks that have none after those that have one, then by
\* title, the file stem standing in for a missing title
C26_SortedByAlbumNumberTitle ==
    (loaded.by = "track/cache.rs" /\ loaded.pc = "returned") =>
      \A i, j \in 1 .. Len(loaded.tracks) :
          i < j => ~ComesBefore(loaded.tracks[j], loaded.tracks[i])

\* two files of one album, the first with track number 1 and the second
\* with none: the one without a track number is returned first
C26_NoTrackNumberFirst ==
    /\ loaded.by = "track/cache.rs" /\ loaded.pc = "returned"
    /\ fs.dir[Dir].entries = << 1, 2 >>
    /\ fs.meta[1].album = fs.meta[2].album
    /\ fs.meta[1].track_number = SomeNum(1) /\ fs.meta[2].track_number = NoneNum
    /\ Len(loaded.tracks) = 2
    /\ loaded.tracks[1].path = 2 /\ loaded.tracks[2].path = 1

\* the vector without the elements whose index is in removed_indicies
retain_others(v, removed_indicies) ==
    LET kept == {k \in 1 .. Len(v) : (k - 1) \notin Elems(removed_indicies)}
        f[k \in 0 .. Len(v)] ==
            IF k = 0 THEN << >> ELSE IF k \in kept THEN Append(f[k - 1], v[k]) ELSE f[k - 1]
    IN f[Len(v)]

\* C27: after an update that returned Ok the two vectors have one length,
\* and after a Remove that returned Ok the track list is the one before it
\* without the tracks at removed_indicies, the others in their order
C27_RemoveKeepsOthers ==
    applied.res = "Ok" =>
      /\ Len(client.track_list) = Len(client.shuffle_indicies)
      /\ applied.kind = "Remove" =>
            client.track_list = retain_others(applied.before.track_list, applied.removed)

\* a Remove of index 0 from a list of two tracks returned Ok, and the list
\* now holds the track that was at index 0 and not the other
C27_RemovedTrackKept ==
    /\ applied.kind = "Remove" /\ applied.res = "Ok" /\ applied.removed = << 0 >>
    /\ applied.before.track_list = << 1, 2 >>
    /\ client.track_list = << 1 >>

\* C28: an update that returned Err has left the two vectors as they were,
\* and needs_sync() is true exactly from an update that returned Err to the
\* next sync, Replace or Clear
C28_NeedsSyncAfterErr ==
    /\ applied.res = "Err" =>
          /\ client.track_list = applied.before.track_list
          /\ client.shuffle_indicies = applied.before.shuffle_indicies
    /\ applied.res \in {"Ok", "Err"} => needs_sync = applied.out_of_sync

\* a Shuffle with too many indices returned Err on a list in sync, and
\* needs_sync() returns false
C28_ErrAndNoSyncNeeded ==
    /\ applied.kind = "Shuffle" /\ applied.res = "Err"
    /\ client.track_list = << 1 >> /\ client.shuffle_indicies = << 0 >>
    /\ client.needs_sync /\ ~needs_sync

\* the number of Skipped events in the SourceEvent channel
SkippedIn(chan) == Cardinality({k \in 1 .. Len(chan) : chan[k].kind = "Skipped"})

\* C29: the skip counter is never negative and falls only in a read-back,
\* by one; a read-back that finds it above zero lowers it by one, its source
\* emits one Skipped event and is dropped by the output without another
\* event or read-back, and no Skipped event is emitted otherwise
C29_SkipConsumedOnce ==
    [][ /\ to_skip' >= 0
        /\ to_skip' < to_skip => apc = "readback"
        /\ ( /\ apc = "readback" /\ apc' # "readback" /\ to_skip > 0 ) =>
             /\ to_skip' = to_skip - 1
             /\ source_chan' = Append(source_chan, Ev("Skipped", 0))
             /\ current' = current /\ current.track # NoTrack
             /\ apc' = "clear"
        /\ SkippedIn(source_chan') > SkippedIn(source_chan) =>
             /\ to_skip' = to_skip - 1
             /\ SkippedIn(source_chan') = SkippedIn(source_chan) + 1
        /\ ( /\ apc \in {"clear", "clear_slot"} /\ apc' # apc ) =>
             /\ apc' = (IF apc = "clear" THEN "clear_slot" ELSE "load")
             /\ current' = (IF apc = "clear" THEN current ELSE NoSource)
             /\ source_chan' = source_chan /\ to_skip' = to_skip
      ]_vars

\* of two increments of the skip counter one has been consumed: the source
\* that read it has emitted its Skipped and is about to be dropped, and the
\* other increment is left for the next source
C29_OneOfTwoSkipsConsumed ==
    /\ apc = "clear" /\ current.track # NoTrack
    /\ to_skip = 1
    /\ source_chan = << Ev("Skipped", 0) >>

\* C30: a source that terminates turns a slot that is Playing into None
\* and leaves a slot that is Queued or None as it is; the output then
\* consumes nothing but the slot, and from a slot that is Queued it takes
\* the queued source as its child and leaves the slot Playing
C30_TerminatingSourceLeavesQueued ==
    [][ /\ ( /\ apc = "clear_slot" /\ apc' # "clear_slot" ) =>
             /\ apc' = "load"
             /\ source_queue.st = "Playing" => source_queue' = SQNone
             /\ source_queue.st # "Playing" => source_queue' = source_queue
        /\ ( /\ apc = "consume" /\ is_queued(source_queue) /\ apc' # "consume" ) =>
             /\ current' = NewSource(source_queue.track)
             /\ source_queue' = SQPlaying
        /\ ( /\ apc \in {"load", "consume"} /\ current' # current ) =>
             (apc = "consume" /\ is_queued(source_queue))
      ]_vars

\* a source has finished and been dropped while the next track was queued:
\* the slot still holds the queued source and the output is about to load
C30_FinishedWithNextQueued ==
    /\ apc = "load" /\ current = NoSource
    /\ source_chan = << Ev("Finished", 0) >>
    /\ source_queue = SQQueued(2)
    /\ playback_state = "Playing"

(* C31: a pull of the output that finds its child exhausted replaces it: by
   the Queued source, which leaves the slot (the state becoming Playing), or,
   with nothing queued, by the silence filler, the slot going to None.  The
   output pulls a controlled source only after it took it from the slot. *)
C31_LoadStep == apc = "consume" /\ apc' # "consume"

C31_ExhaustedChildReplaced ==
    /\ [](apc \notin {"load", "consume"} => current.track # NoTrack)
    /\ [][C31_LoadStep =>
             IF is_queued(source_queue)
             THEN /\ current' = NewSource(source_queue.track)
                  /\ source_queue' = SQPlaying
                  /\ apc' = "readback"
             ELSE /\ current' = NoSource
                  /\ source_queue' = SQNone
                  /\ apc' = "load"]_vars

\* the output has just taken the first of two tracks from the slot
C31_QueuedSourceTaken ==
    /\ apc = "readback" /\ current = NewSource(1)
    /\ source_queue = SQPlaying /\ ctl["req"].pc = "wait_queue"

(* C32: the run loop answers each Finished and each LoopError source event
   with one call of go_to_next_track, and a Skipped, Looped or Seeked event
   with none; an error of that call which is recoverable does not make the run
   loop return. *)
C32_EventTaken == source_chan # << >> /\ source_chan' = Tail(source_chan)

C32_NextTrackPerEndingEvent ==
    /\ [](ctl["run"].pc # "returned")
    /\ [][C32_EventTaken =>
             IF Head(source_chan).kind \in {"Finished", "LoopError"}
             THEN \E out \in go_to_next_track(CS([IdleCtl EXCEPT !.op = "advance"])) :
                      Apply("run", out)
             ELSE UNCHANGED << listVars, current_track_index, to_skip, source_queue,
                               ctl, panicked >>]_vars

\* the run loop took the Finished of the only track under Loop Mode Playlist
\* and its go_to_next_track is about to build the decoder, which may fail
C32_AdvanceAboutToLoad ==
    /\ ctl["run"].op = "advance" /\ ctl["run"].pc = "load_cur"
    /\ loop_mode = "Playlist" /\ source_chan = << >>
    /\ current_track_index = 0 /\ playback_state = "Playing"

(* C33: a controlled source whose decoder reaches the end of the stream under
   Loop Mode Track seeks the decoder to zero, sends Looped and no Finished, and
   goes on with the first sample of the stream; the index of the current track
   and the slot are left as they are.  If the seek fails it sends LoopError and
   terminates. *)
C33_EndOfStream ==
    /\ apc = "next" /\ apc' # "next" /\ ~current.paused
    /\ current.pos >= total_duration(current.track)
    /\ loop_mode = "Track"

C33_TrackLoopRewinds ==
    [][C33_EndOfStream =>
         /\ current_track_index' = current_track_index
         /\ source_queue' = source_queue
         /\ \/ /\ source_chan' = Append(source_chan, Ev("Looped", 0))
               /\ current'.track = current.track
               /\ current'.pos = 0 /\ current'.tracked = 0
               /\ apc' = "readback"
            \/ /\ source_chan' = Append(source_chan, Ev("LoopError", 0))
               /\ apc' = "clear"]_vars

\* the only track has just been rewound: Looped is on its way to the run
\* loop and the source is still the one the output pulls
C33_Looped ==
    /\ loop_mode = "Track" /\ playback_state = "Playing"
    /\ source_chan = << Ev("Looped", 0) >>
    /\ apc = "readback" /\ current.track = 1 /\ current.pos = 0
    /\ source_queue = SQPlaying /\ current_track_index = 0

(* C34: every queue_current_track eventually returns while the audio thread
   keeps pulling: a task that builds a decoder or polls the slot in
   queue_track leaves that loop, whatever the other task does. *)
C34_InQueueTrack(p) == ctl[p].pc \in {"load_cur", "load_next", "wait_queue"}

C34_QueueCurrentTrackReturns ==
    \A p \in Procs : C34_InQueueTrack(p) ~> ~C34_InQueueTrack(p)

\* a Replace insertion polls the slot while the player is Paused: the slot
\* holds a source the run loop put there, the output pulls a paused source
\* that never ends, and no skip is pending
C34_InsertionPollsWhilePaused ==
    /\ ctl["req"].pc = "wait_queue" /\ ctl["req"].op = "replace"
    /\ ctl["run"].pc = "idle" /\ source_chan = << >>
    /\ is_queued(source_queue) /\ to_skip = 0
    /\ playback_state = "Paused"
    /\ apc = "readback" /\ current.track # NoTrack

(* C35: previous_track(soft = false) at index 0 of an empty track list
   returns with the index at 0 and the player Stopped, under every Loop Mode. *)
C35_PreviousOnEmptyListStops ==
    ( /\ ctl["req"].pc = "done" /\ ctl["req"].op = "prev"
      /\ ctl["req"].arg.kind = "Hard" /\ ctl["req"].wrapped
      /\ track_list = << >> )
    => (current_track_index = 0 /\ playback_state = "Stopped")

\* previous_track(soft = false) on an empty list under a Loop Mode other than
\* None has returned Ok with the index at len() - 1, wrapped around
C35_IndexWrappedToMax ==
    /\ ctl["req"].pc = "done" /\ ctl["req"].op = "prev" /\ ctl["req"].res = "Ok"
    /\ ctl["req"].arg.kind = "Hard" /\ ctl["req"].wrapped
    /\ track_list = << >> /\ loop_mode # "None"
    /\ current_track_index = USIZE_MOD - 1

(* C36: whenever no operation is in progress, no source event or skip is
   pending, and the player is Playing or Paused, the source the output pulls
   was built from the track at the current index of the playing order, and a
   source that waits in the slot from the track one position further. *)
C36_Quiescent ==
    /\ ~panicked /\ \A p \in Procs : ctl[p].pc = "idle"
    /\ source_chan = << >> /\ to_skip = 0
    /\ playback_state \in {"Playing", "Paused"}
    /\ LiveSource

C36_SourcesFollowIndex ==
    C36_Quiescent =>
        LET q == get_tracks_to_queue(track_list, shuffled_track_indicies,
                                     current_track_index)
        IN  /\ q.some /\ current.track = q.cur
            /\ is_queued(source_queue) => source_queue.track = q.next

\* a track was inserted right behind the playing one: the source that waits
\* in the slot was built from the track that is now two positions further
C36_StalePreloadAfterInsert ==
    /\ C36_Quiescent /\ playback_state = "Playing"
    /\ track_list = << 1, 2, 1 >> /\ ~shuffle_enabled /\ current_track_index = 0
    /\ current.track = 1 /\ source_queue = SQQueued(1)

(* C37: the skip counter is above zero only while the output pulls a
   controlled source: with the filler as the child of the output no skip is
   pending, so none is left for a source that starts later. *)
C37_NoSkipWithoutSource ==
    (apc = "load" /\ current = NoSource) => to_skip = 0

\* a stop has returned and left a skip behind: the player is Stopped and at
\* rest, the slot is None, the output pulls the filler, and the counter is 1
C37_SkipLeftByStop ==
    /\ ~panicked /\ \A p \in Procs : ctl[p].pc = "idle"
    /\ playback_state = "Stopped" /\ source_queue = SQNone
    /\ apc = "load" /\ current = NoSource /\ source_chan = << >>
    /\ to_skip = 1

(* C38: a play from Stopped that returns a LoadTrack error leaves the player
   as it found it: Stopped, and with no source put into the slot. *)
C38_FailedPlayArmsNothing ==
    ( /\ ctl["req"].pc = "done" /\ ctl["req"].op = "play"
      /\ ctl["req"].res = "LoadTrack" /\ ctl["req"].pre = "Stopped" )
    => (playback_state = "Stopped" /\ ctl["req"].armed = NoTrack)

\* a play from Stopped has returned a LoadTrack error for the preload, with
\* the source of the current track waiting in the slot of a Stopped player
C38_FailedPlayLeftSourceQueued ==
    /\ ctl["req"].pc = "done" /\ ctl["req"].op = "play"
    /\ ctl["req"].res = "LoadTrack" /\ ctl["req"].pre = "Stopped"
    /\ playback_state = "Stopped" /\ track_list = << 1, 2 >>
    /\ ctl["req"].armed = 1 /\ source_queue = SQQueued(1)

(* C39: whenever no operation is in progress, a player that is not Stopped
   has a track list that is not empty. *)
C39_NotStoppedHasTracks ==
    (~panicked /\ \A p \in Procs : ctl[p].pc = "idle")
    => (playback_state # "Stopped" => track_list # << >>)

\* the list of a Playing player was replaced by no tracks: the player is at
\* rest and Playing, the list is empty, and the output still pulls the source
\* of the track that was playing, with no skip pending
C39_PlayingEmptyList ==
    /\ ~panicked /\ \A p \in Procs : ctl[p].pc = "idle"
    /\ playback_state = "Playing" /\ track_list = << >>
    /\ LiveSource /\ current.track = 1 /\ source_queue = SQPlaying
    /\ to_skip = 0 /\ source_chan = << >>

(* C40: a pending seek that was written while the output had a controlled
   source as its child is taken, if it is taken at all, by a read-back of a
   source of that same track. *)
C40_SeekTaken ==
    /\ seek_position # NoSeek /\ seek_position' = NoSeek
    /\ ctl["req"].pc = "seek_wait" /\ ctl["req"].target # NoTrack

C40_SeekAppliedToItsSource ==
    [][C40_SeekTaken => current.track = ctl["req"].target]_vars

\* a seek written while the first track was the child of the output has just
\* been answered by a read-back of the second track: its Seeked is the only
\* source event on its way, so the first track's last event came before it
C40_SeekAnsweredByNextTrack ==
    /\ ctl["req"].pc = "seek_wait" /\ ctl["req"].target = 1
    /\ seek_position = NoSeek /\ seek_reply = "Ok"
    /\ apc = "next" /\ current.track = 2
    /\ Len(source_chan) = 1 /\ source_chan[1].kind = "Seeked"
    /\ track_list = << 1, 2 >>

====
